---- MODULE Spec2Model ----
(***************************************************************************)
(* Model of the document-to-build-plan pipeline of mcp_server:             *)
(*   asm.py               ArchitecturalSynthesisModule (synthesis,         *)
(*                        compilation of build instructions, save)         *)
(*   builder.py           CodeGenerationEngine (load, plan execution)      *)
(*   enhanced_builder.py  EnhancedCodeGenerationEngine (plan execution)    *)
(*                                                                         *)
(* Python values are tagged records: the field py names the Python type.   *)
(***************************************************************************)
EXTENDS Integers, Sequences, FiniteSets, TLC

(***************************************************************************)
(* Bounds of the model.                                                    *)
(***************************************************************************)
MaxNodes == 3
MaxDeps == 2
MaxCmds == 1

(***************************************************************************)
(* Python values.                                                          *)
(***************************************************************************)
Str(s) == [py |-> "str", s |-> s]
PyInt(n) == [py |-> "int", n |-> n]
None == [py |-> "None"]
List(elems) == [py |-> "list", elems |-> elems]
Dict(items) == [py |-> "dict", items |-> items]
Item(k, v) == [key |-> k, val |-> v]
Raise(exc) == [py |-> "raise", exc |-> exc]

IsRaise(v) == v.py = "raise"

RECURSIVE SeqToSet(_)
SeqToSet(s) == IF s = <<>> THEN {} ELSE {Head(s)} \cup SeqToSet(Tail(s))

KeysOf(items) == {items[i].key : i \in 1..Len(items)}

\* dict.get(key, default)
Get(d, key, default) ==
    IF \E i \in 1..Len(d.items) : d.items[i].key = key
    THEN d.items[CHOOSE i \in 1..Len(d.items) : d.items[i].key = key].val
    ELSE default

\* the strings the model iterates character by character
CharTable == [s \in {"", "ab"} |-> IF s = "" THEN <<>> ELSE <<"a", "b">>]

\* iter(v): the sequence a for loop over v visits, or the TypeError it raises
Iter(v) ==
    CASE v.py = "list" -> v
      [] v.py = "dict" -> List([i \in 1..Len(v.items) |-> Str(v.items[i].key)])
      [] v.py = "str" ->
            List([i \in 1..Len(CharTable[v.s]) |-> Str(CharTable[v.s][i])])
      [] OTHER -> Raise("TypeError")

(***************************************************************************)
(* asm.py: BuildInstruction and the Build Plan Compiler.                   *)
(***************************************************************************)
BuildInstruction(type, action, target, order) ==
    [py |-> "BuildInstruction", type |-> Str(type), action |-> Str(action),
     target |-> target, content |-> None, dependencies |-> None,
     order |-> PyInt(order)]

\* f"{prefix}/{key}" if prefix else key
CurrentPath(prefix, key) == IF prefix # "" THEN prefix \o "/" \o key ELSE key

RECURSIVE ExtractDirectories(_, _)
RECURSIVE ExtractDirectoriesFrom(_, _, _)
\* mutant: the children of a node are emitted before the node itself
ExtractDirectoriesPostOrder(items, prefix, i) ==
    IF i > Len(items) THEN <<>>
    ELSE LET current_path == CurrentPath(prefix, items[i].key)
             value == items[i].val
         IN  (IF value.py = "dict"
              THEN ExtractDirectories(value, current_path) \o <<current_path>>
              ELSE <<>>)
             \o ExtractDirectoriesFrom(items, prefix, i + 1)

\* the loop body of _extract_directories for the items i.. of structure
ExtractDirectoriesFrom(items, prefix, i) ==
    IF i > Len(items) THEN <<>>
    ELSE LET current_path == CurrentPath(prefix, items[i].key)
             value == items[i].val
         IN  (IF value.py = "dict"
              THEN <<current_path>> \o ExtractDirectories(value, current_path)
              ELSE <<>>)
             \o ExtractDirectoriesFrom(items, prefix, i + 1)

\* _extract_directories(structure, prefix); structure is a dict here, the
\* caller raises AttributeError on structure.items() otherwise
ExtractDirectories(structure, prefix) ==
    ExtractDirectoriesFrom(structure.items, prefix, 1)

\* one phase of _create_build_instructions: an instruction per target,
\* numbered from first on
Phase(type, action, targets, first) ==
    [i \in 1..Len(targets) |->
        BuildInstruction(type, action, targets[i], first + i - 1)]

\* mutant: the dependency phase is emitted before the directory phase
CreateBuildInstructionsDepsFirst(plan) ==
    LET structure == Get(plan, "directory_structure", Dict(<<>>))
        deps == Iter(Get(plan, "dependencies", List(<<>>)))
        cmds == Iter(Get(plan, "build_sequence", List(<<>>)))
    IN  IF structure.py # "dict" THEN Raise("AttributeError")
        ELSE IF IsRaise(deps) THEN deps
        ELSE IF IsRaise(cmds) THEN cmds
        ELSE LET dirs == ExtractDirectories(structure, "")
                 dirTargets == [i \in 1..Len(dirs) |-> Str(dirs[i])]
             IN  List(Phase("dependency", "install", deps.elems, 0)
                      \o Phase("directory", "create", dirTargets,
                               Len(deps.elems))
                      \o Phase("command", "run", cmds.elems,
                               Len(dirs) + Len(deps.elems)))

\* _create_build_instructions(plan): the list of instructions, or the
\* exception raised on a field that cannot be traversed
CreateBuildInstructions(plan) ==
    LET structure == Get(plan, "directory_structure", Dict(<<>>))
        deps == Iter(Get(plan, "dependencies", List(<<>>)))
        cmds == Iter(Get(plan, "build_sequence", List(<<>>)))
    IN  IF structure.py # "dict" THEN Raise("AttributeError")
        ELSE IF IsRaise(deps) THEN deps
        ELSE IF IsRaise(cmds) THEN cmds
        ELSE LET dirs == ExtractDirectories(structure, "")
                 dirTargets == [i \in 1..Len(dirs) |-> Str(dirs[i])]
             IN  List(Phase("directory", "create", dirTargets, 0)
                      \o Phase("dependency", "install", deps.elems, Len(dirs))
                      \o Phase("command", "run", cmds.elems,
                               Len(dirs) + Len(deps.elems)))

(***************************************************************************)
(* Inputs of the compiler: directory-structure trees of at most MaxNodes   *)
(* nodes (a dict keeps its insertion order and has no key twice), and the  *)
(* analysis dicts built from them.                                         *)
(***************************************************************************)
Keys == {"src", "app", "package.json"}
Leaves == {Str("file"), Str("directory")}
DepNames == {"react", "next"}
CmdNames == {"npm run build"}

RECURSIVE ItemSeqs(_)
\* the item lists of the dicts with at most n nodes below them
ItemSeqs(n) ==
    {<<>>} \cup
    UNION {{<<Item(k, v)>> \o rest :
               v \in (IF i = 1 THEN Leaves ELSE {})
                      \cup {Dict(d) : d \in ItemSeqs(i - 1)},
               rest \in {r \in ItemSeqs(n - i) : k \notin KeysOf(r)}} :
           k \in Keys, i \in 1..n}

Trees == {Dict(d) : d \in ItemSeqs(MaxNodes)}

\* the tree {"src": {"app": "directory"}, "package.json": "file"}
ScenarioTree ==
    Dict(<<Item("src", Dict(<<Item("app", Str("directory"))>>)),
           Item("package.json", Str("file"))>>)

RECURSIVE SeqsUpTo(_, _)
SeqsUpTo(S, n) ==
    IF n = 0 THEN {<<>>}
    ELSE SeqsUpTo(S, n - 1)
         \cup {Append(q, x) : q \in {r \in SeqsUpTo(S, n - 1) : Len(r) = n - 1},
                              x \in S}

StrList(S, n) == {List([i \in 1..Len(q) |-> Str(q[i])]) : q \in SeqsUpTo(S, n)}

\* a field of an analysis dict: absent, or present with one of the values
Absent == [py |-> "absent"]
FieldItems(key, v) == IF v = Absent THEN <<>> ELSE <<Item(key, v)>>

StructureValues == Trees \cup {Absent, None, List(<<>>)}
DependencyValues ==
    StrList(DepNames, MaxDeps)
    \cup {Absent, None, Str("ab"), Dict(<<Item("react", Str("18"))>>)}
SequenceValues == StrList(CmdNames, MaxCmds) \cup {Absent, None}

AnalysisDict(structure, deps, cmds) ==
    Dict(FieldItems("directory_structure", structure)
         \o FieldItems("dependencies", deps)
         \o FieldItems("build_sequence", cmds))

(***************************************************************************)
(* JSON documents, json.dump(..., default=str) and json.load.              *)
(***************************************************************************)
RECURSIVE Dump(_)
\* json.dump: dict -> object, list -> array, str -> string, int -> number,
\* None -> null; any other object goes through default=str
Dump(v) ==
    CASE v.py = "dict" ->
            [js |-> "object",
             items |-> [i \in 1..Len(v.items) |->
                           Item(v.items[i].key, Dump(v.items[i].val))]]
      [] v.py = "list" ->
            [js |-> "array", elems |-> [i \in 1..Len(v.elems) |-> Dump(v.elems[i])]]
      [] v.py = "str" -> [js |-> "string", s |-> v.s]
      [] v.py = "int" -> [js |-> "number", n |-> v.n]
      [] v.py = "None" -> [js |-> "null"]
      [] OTHER -> [js |-> "string", s |-> v.py \o "(...)"]

RECURSIVE Load(_)
\* json.load: object -> dict, array -> list, string -> str, number -> int,
\* null -> None
Load(j) ==
    CASE j.js = "object" ->
            Dict([i \in 1..Len(j.items) |->
                     Item(j.items[i].key, Load(j.items[i].val))])
      [] j.js = "array" -> List([i \in 1..Len(j.elems) |-> Load(j.elems[i])])
      [] j.js = "string" -> Str(j.s)
      [] j.js = "number" -> PyInt(j.n)
      [] j.js = "null" -> None

\* text that is not a JSON document
NonJsonText == [js |-> "invalid"]

\* json.loads(text)
JsonLoads(text) ==
    IF text = None THEN Raise("TypeError")
    ELSE IF text.js = "invalid" THEN Raise("JSONDecodeError")
    ELSE Load(text)

(***************************************************************************)
(* asm.py: synthesis.                                                      *)
(***************************************************************************)
\* _create_basic_plan
CreateBasicPlan(project_info, tech_stack, dependencies, file_structure, build_steps) ==
    Dict(<<Item("project_name",
                Get(project_info, "name", Str("generated-project"))),
           Item("description",
                Get(project_info, "description", Str("Generated application"))),
           Item("technology_stack", tech_stack),
           Item("directory_structure", file_structure),
           Item("dependencies", dependencies),
           Item("environment_variables", Dict(<<>>)),
           Item("post_build_commands", List(<<>>)),
           Item("build_sequence", build_steps)>>)

\* self._create_basic_plan(**extracted_data)
BasicPlanOf(extracted_data) ==
    CreateBasicPlan(extracted_data.project_info, extracted_data.tech_stack,
                    extracted_data.dependencies, extracted_data.file_structure,
                    extracted_data.build_steps)

\* mutant: a response that is not JSON yields an empty plan, not the basic one
AiEnhancePlanEmptyFallback(hasClient, extracted_data, resp) ==
    IF ~hasClient THEN BasicPlanOf(extracted_data)
    ELSE IF resp.kind = "raises" THEN BasicPlanOf(extracted_data)
    ELSE LET enhanced_plan == JsonLoads(resp.content)
         IN  IF enhanced_plan = Raise("JSONDecodeError") THEN Dict(<<>>)
             ELSE IF IsRaise(enhanced_plan) THEN BasicPlanOf(extracted_data)
             ELSE enhanced_plan

\* _ai_enhance_plan: resp is the outcome of client.chat.completions.create,
\* an exception (a timeout included) or a message content
AiEnhancePlan(hasClient, extracted_data, resp) ==
    IF ~hasClient THEN BasicPlanOf(extracted_data)
    ELSE IF resp.kind = "raises" THEN BasicPlanOf(extracted_data)
    ELSE LET enhanced_plan == JsonLoads(resp.content)
         IN  IF enhanced_plan = Raise("JSONDecodeError")
             THEN BasicPlanOf(extracted_data)
             ELSE IF IsRaise(enhanced_plan) THEN BasicPlanOf(extracted_data)
             ELSE enhanced_plan

\* UnifiedBuildPlan(...)
UnifiedBuildPlan(project_name, description, technology_stack, directory_structure, dependencies, build_instructions, environment_variables, post_build_commands, metadata) ==
    [py |-> "UnifiedBuildPlan", project_name |-> project_name,
     description |-> description, technology_stack |-> technology_stack,
     directory_structure |-> directory_structure,
     dependencies |-> dependencies, build_instructions |-> build_instructions,
     environment_variables |-> environment_variables,
     post_build_commands |-> post_build_commands, metadata |-> metadata]

Cwd == "/work"

\* synthesize_architecture up to the construction of the UnifiedBuildPlan:
\* the plan, or the exception that leaves the method
SynthesizeArchitecture(hasClient, extracted_data, resp, all_chunks) ==
    LET enhanced_plan ==
            IF hasClient THEN AiEnhancePlan(hasClient, extracted_data, resp)
            ELSE BasicPlanOf(extracted_data)
    IN  IF enhanced_plan.py # "dict" THEN Raise("AttributeError")
        ELSE LET build_instructions == CreateBuildInstructions(enhanced_plan)
             IN  IF IsRaise(build_instructions) THEN build_instructions
                 ELSE UnifiedBuildPlan(
                        Get(enhanced_plan, "project_name",
                            Str("generated-project")),
                        Get(enhanced_plan, "description",
                            Str("AI-generated application")),
                        Get(enhanced_plan, "technology_stack",
                            extracted_data.tech_stack),
                        Get(enhanced_plan, "directory_structure",
                            extracted_data.file_structure),
                        Get(enhanced_plan, "dependencies",
                            extracted_data.dependencies),
                        build_instructions,
                        Get(enhanced_plan, "environment_variables", Dict(<<>>)),
                        Get(enhanced_plan, "post_build_commands", List(<<>>)),
                        Dict(<<Item("generated_at", Str(Cwd)),
                               Item("source_files",
                                    List([i \in 1..Len(all_chunks) |->
                                             Str(all_chunks[i].source_file)])),
                               Item("total_chunks", PyInt(Len(all_chunks)))>>))

(***************************************************************************)
(* asm.py _save_build_plan and builder.py _load_build_plan.                *)
(***************************************************************************)
\* dataclasses.asdict of a BuildInstruction
AsDictInstruction(inst) ==
    Dict(<<Item("type", inst.type), Item("action", inst.action),
           Item("target", inst.target), Item("content", inst.content),
           Item("dependencies", inst.dependencies),
           Item("order", inst.order)>>)

\* dataclasses.asdict inside a list: dataclass instances become dicts
AsDictList(v) ==
    IF v.py = "list"
    THEN List([i \in 1..Len(v.elems) |->
                  IF v.elems[i].py = "BuildInstruction"
                  THEN AsDictInstruction(v.elems[i]) ELSE v.elems[i]])
    ELSE v

\* dataclasses.asdict(build_plan)
AsDict(build_plan) ==
    Dict(<<Item("project_name", build_plan.project_name),
           Item("description", build_plan.description),
           Item("technology_stack", build_plan.technology_stack),
           Item("directory_structure", build_plan.directory_structure),
           Item("dependencies", build_plan.dependencies),
           Item("build_instructions", AsDictList(build_plan.build_instructions)),
           Item("environment_variables", build_plan.environment_variables),
           Item("post_build_commands", build_plan.post_build_commands),
           Item("metadata", build_plan.metadata)>>)

\* _save_build_plan: the content of UnifiedBuildPlan.json
SaveBuildPlan(build_plan) == Dump(AsDict(build_plan))

InstructionFields ==
    {"type", "action", "target", "content", "dependencies", "order"}
PlanFields ==
    {"project_name", "description", "technology_stack", "directory_structure",
     "dependencies", "build_instructions", "environment_variables",
     "post_build_commands", "metadata"}

\* mutant: the instructions stay the dicts json.load returned
InstructionKeptAsDict(inst_data) == inst_data

\* BuildInstruction(**inst_data)
InstructionFromDict(inst_data) ==
    IF inst_data.py # "dict" THEN Raise("TypeError")
    ELSE IF ~(KeysOf(inst_data.items) \subseteq InstructionFields)
            \/ ~({"type", "action", "target"} \subseteq KeysOf(inst_data.items))
    THEN Raise("TypeError")
    ELSE [py |-> "BuildInstruction",
          type |-> Get(inst_data, "type", None),
          action |-> Get(inst_data, "action", None),
          target |-> Get(inst_data, "target", None),
          content |-> Get(inst_data, "content", None),
          dependencies |-> Get(inst_data, "dependencies", None),
          order |-> Get(inst_data, "order", PyInt(0))]

\* _load_build_plan(path) on a file holding the document file
LoadBuildPlan(file) ==
    LET plan_data == Load(file)
    IN  IF plan_data.py # "dict" THEN Raise("AttributeError")
        ELSE LET listed == Iter(Get(plan_data, "build_instructions", List(<<>>)))
             IN  IF IsRaise(listed) THEN listed
                 ELSE LET converted == [i \in 1..Len(listed.elems) |->
                                           InstructionFromDict(listed.elems[i])]
                      IN  IF \E i \in 1..Len(converted) : IsRaise(converted[i])
                          THEN Raise("TypeError")
                          ELSE IF KeysOf(plan_data.items) \cup {"build_instructions"}
                                    # PlanFields
                          THEN Raise("TypeError")
                          ELSE UnifiedBuildPlan(
                                 Get(plan_data, "project_name", None),
                                 Get(plan_data, "description", None),
                                 Get(plan_data, "technology_stack", None),
                                 Get(plan_data, "directory_structure", None),
                                 Get(plan_data, "dependencies", None),
                                 List(converted),
                                 Get(plan_data, "environment_variables", None),
                                 Get(plan_data, "post_build_commands", None),
                                 Get(plan_data, "metadata", None))

(***************************************************************************)
(* Inputs of synthesis: what the rule-based extractors returned for the    *)
(* chunks, and the outcome of the generation call.                         *)
(***************************************************************************)
MaxChunks == 2

ProjectInfo(name) ==
    Dict(<<Item("name", Str(name)), Item("description", Str("Generated project")),
           Item("version", Str("1.0.0"))>>)

ExtractedData ==
    [project_info : {ProjectInfo("unknown-project"), ProjectInfo("shop")},
     tech_stack : {List(<<Str("react")>>)},
     dependencies : StrList(DepNames, MaxDeps),
     file_structure : {Dict(<<>>), ScenarioTree, Dict(<<Item("src", Dict(<<>>))>>)},
     build_steps : StrList(CmdNames, MaxCmds)]

ChunkLists ==
    {[i \in 1..Len(q) |-> [source_file |-> q[i]]] :
        q \in {r \in SeqsUpTo({"doc.md"}, MaxChunks) : Len(r) >= 1}}

\* the extra keys a generated plan carries together or not at all
GeneratedExtras ==
    {<<>>,
     <<Item("description", Str("A shop")),
       Item("technology_stack", List(<<Str("next.js")>>)),
       Item("environment_variables", Dict(<<Item("PORT", Str("3000"))>>)),
       Item("post_build_commands", List(<<Str("npm test")>>))>>}

\* the Python values a JSON response can stand for
GeneratedObjects ==
    {Dict(FieldItems("project_name", n) \o x
          \o FieldItems("directory_structure", s)
          \o FieldItems("dependencies", d)
          \o FieldItems("build_sequence", c)) :
        n \in {Absent, Str("ai-shop")}, x \in GeneratedExtras,
        s \in {Absent, None, Dict(<<>>), ScenarioTree},
        d \in {Absent, None, List(<<Str("next"), Str("react")>>)},
        c \in {Absent, PyInt(3), List(<<Str("npm run build")>>)}}

GeneratedValues ==
    GeneratedObjects \cup {List(<<>>), Str("ok"), PyInt(42), None}

\* outcomes of the generation call
Responses ==
    {[kind |-> "raises", content |-> None],
     [kind |-> "content", content |-> None],
     [kind |-> "content", content |-> NonJsonText]}
    \cup {[kind |-> "content", content |-> Dump(v)] : v \in GeneratedValues}

(***************************************************************************)
(* The working directory: each path is absent, a directory or a file.      *)
(***************************************************************************)
FsPaths ==
    {<<>>, <<"a">>, <<"a", "b">>, <<"package.json">>, <<"requirements.txt">>,
     <<"pyproject.toml">>}

RECURSIVE PathString(_)
PathString(q) ==
    IF Len(q) = 1 THEN q[1] ELSE q[1] \o "/" \o PathString(Tail(q))

\* working_directory / target
Resolve(target) ==
    CHOOSE q \in FsPaths \ {<<>>} : PathString(q) = target

NoEntry == [kind |-> "absent"]
DirEntry == [kind |-> "dir"]
FileEntry(content) == [kind |-> "file", content |-> content]

\* the path and its ancestors up to the root <<>>, and the ancestors alone
Prefixes(q) == {SubSeq(q, 1, n) : n \in 0..Len(q)}
ParentPrefixes(q) == {SubSeq(q, 1, n) : n \in 0..(Len(q) - 1)}

\* Path.exists()
Exists(fs, q) == q \in DOMAIN fs /\ fs[q].kind # "absent"

\* the directory and every missing ancestor in ps become directories
MakeDirs(fs, ps) == [q \in DOMAIN fs |-> IF q \in ps THEN DirEntry ELSE fs[q]]

\* Path.mkdir(parents=True, exist_ok=True): raises when the path or one of
\* its ancestors is a file
Mkdir(fs, q) ==
    IF \E p \in Prefixes(q) : fs[p].kind = "file"
    THEN [ok |-> FALSE, fs |-> fs]
    ELSE [ok |-> TRUE, fs |-> MakeDirs(fs, Prefixes(q))]

\* full_path.parent.mkdir(parents=True, exist_ok=True), then
\* open(full_path, 'w').write(content): open raises on a directory
WriteFile(fs, q, content) ==
    IF \E p \in ParentPrefixes(q) : fs[p].kind = "file"
    THEN [ok |-> FALSE, fs |-> fs]
    ELSE LET made == MakeDirs(fs, ParentPrefixes(q))
         IN  IF made[q].kind = "dir" THEN [ok |-> FALSE, fs |-> made]
             ELSE [ok |-> TRUE, fs |-> [made EXCEPT ![q] = FileEntry(content)]]

\* how subprocess.run ends: exit code 0, another exit code,
\* subprocess.TimeoutExpired, or another exception
Outcomes == {"exit0", "nonzero", "timeout", "oserror"}

(***************************************************************************)
(* builder.py: CodeGenerationEngine.  A step returns ok (the boolean the   *)
(* method returns), the working directory after it, the commands handed to *)
(* subprocess.run and the number of calls that write to the file system.   *)
(***************************************************************************)
Step(ok, fs, started, ops) ==
    [ok |-> ok, fs |-> fs, started |-> started, ops |-> ops]

\* mutant: the dry_run test is missing
RunCommandNoDryRun(dry, fs, command, outcome) ==
    Step(outcome = "exit0", fs, <<command>>, 0)

\* _run_command
RunCommand(dry, fs, command, outcome) ==
    IF dry THEN Step(TRUE, fs, <<>>, 0)
    ELSE Step(outcome = "exit0", fs, <<command>>, 0)

\* mutant: exist_ok is missing, an existing directory is an error
CreateDirectoryNoExistOk(dry, fs, dir_path) ==
    IF dry THEN Step(TRUE, fs, <<>>, 0)
    ELSE IF fs[Resolve(dir_path)].kind # "absent" THEN Step(FALSE, fs, <<>>, 1)
    ELSE LET made == Mkdir(fs, Resolve(dir_path))
         IN  Step(made.ok, made.fs, <<>>, 1)

\* _create_directory
CreateDirectory(dry, fs, dir_path) ==
    IF dry THEN Step(TRUE, fs, <<>>, 0)
    ELSE LET made == Mkdir(fs, Resolve(dir_path))
         IN  Step(made.ok, made.fs, <<>>, 1)

\* instruction.content or ''
ContentOrEmpty(content) == IF content.py = "str" THEN content.s ELSE ""

\* _create_file
CreateFile(dry, fs, file_path, content) ==
    IF dry THEN Step(TRUE, fs, <<>>, 0)
    ELSE LET written == WriteFile(fs, Resolve(file_path), content)
         IN  Step(written.ok, written.fs, <<>>, 1)

\* _install_npm_dependency, _install_pip_dependency
InstallWith(dry, fs, manager, dependency, outcome) ==
    IF dry THEN Step(TRUE, fs, <<>>, 0)
    ELSE RunCommand(dry, fs, manager \o " install " \o dependency, outcome)

\* mutant: the pip markers are looked for first
InstallDependencyPipFirst(dry, fs, dependency, outcome) ==
    IF Exists(fs, <<"requirements.txt">>) \/ Exists(fs, <<"pyproject.toml">>)
    THEN InstallWith(dry, fs, "pip", dependency, outcome)
    ELSE IF Exists(fs, <<"package.json">>)
    THEN InstallWith(dry, fs, "npm", dependency, outcome)
    ELSE Step(TRUE, fs, <<>>, 0)

\* mutant: npm is the package manager when no marker file is found
InstallDependencyNpmDefault(dry, fs, dependency, outcome) ==
    IF Exists(fs, <<"requirements.txt">>) \/ Exists(fs, <<"pyproject.toml">>)
    THEN InstallWith(dry, fs, "pip", dependency, outcome)
    ELSE InstallWith(dry, fs, "npm", dependency, outcome)

\* the files _has_package_json, _has_requirements_txt and
\* _has_pyproject_toml look for
MarkerFiles == {<<"package.json">>, <<"requirements.txt">>, <<"pyproject.toml">>}

\* _install_dependency
InstallDependency(dry, fs, dependency, outcome) ==
    IF Exists(fs, <<"package.json">>)
    THEN InstallWith(dry, fs, "npm", dependency, outcome)
    ELSE IF Exists(fs, <<"requirements.txt">>) \/ Exists(fs, <<"pyproject.toml">>)
    THEN InstallWith(dry, fs, "pip", dependency, outcome)
    ELSE Step(TRUE, fs, <<>>, 0)

\* _execute_instruction
ExecuteInstruction(dry, fs, instruction, outcome) ==
    CASE instruction.type = Str("directory") ->
            CreateDirectory(dry, fs, instruction.target.s)
      [] instruction.type = Str("file") ->
            CreateFile(dry, fs, instruction.target.s,
                       ContentOrEmpty(instruction.content))
      [] instruction.type = Str("dependency") ->
            InstallDependency(dry, fs, instruction.target.s, outcome)
      [] instruction.type = Str("command") ->
            RunCommand(dry, fs, instruction.target.s, outcome)
      [] OTHER -> Step(TRUE, fs, <<>>, 0)

RECURSIVE SortedByOrder(_)
\* sorted(build_instructions, key=lambda x: x.order): a stable sort
SortedByOrder(seq) ==
    IF seq = <<>> THEN <<>>
    ELSE LET rest == SortedByOrder(SubSeq(seq, 1, Len(seq) - 1))
             last == seq[Len(seq)]
             k == Cardinality({i \in 1..Len(rest) :
                                  rest[i].order.n <= last.order.n})
         IN  SubSeq(rest, 1, k) \o <<last>> \o SubSeq(rest, k + 1, Len(rest))

\* mutant: a failed instruction does not end the run
AfterInstructionContinue(ok, position, n, posts) ==
    IF position < n THEN [phase |-> "build", result |-> "none"]
    ELSE IF posts > 0 THEN [phase |-> "post", result |-> "none"]
    ELSE [phase |-> "done", result |-> "True"]

\* what follows the build instruction at position of n in _execute_plan,
\* posts post-build commands waiting: a failure ends the run with False
AfterInstruction(ok, position, n, posts) ==
    IF ~ok THEN [phase |-> "done", result |-> "False"]
    ELSE IF position < n THEN [phase |-> "build", result |-> "none"]
    ELSE IF posts > 0 THEN [phase |-> "post", result |-> "none"]
    ELSE [phase |-> "done", result |-> "True"]

\* mutant: a failed post-build command ends the run with False
AfterPostCommandFails(ok, post_position, n) ==
    IF ~ok THEN [phase |-> "done", result |-> "False"]
    ELSE IF post_position < n THEN [phase |-> "post", result |-> "none"]
    ELSE [phase |-> "done", result |-> "True"]

\* what follows the post-build command at post_position of n in
\* _execute_plan: its failure is a warning only
AfterPostCommand(ok, post_position, n) ==
    IF post_position < n THEN [phase |-> "post", result |-> "none"]
    ELSE [phase |-> "done", result |-> "True"]

(***************************************************************************)
(* enhanced_builder.py: EnhancedCodeGenerationEngine.  Its methods return  *)
(* the command text, or None after a logged error or when nothing is done; *)
(* ok is FALSE where the method logs an error.                             *)
(***************************************************************************)
\* _run_command
EnhancedRunCommand(dry, fs, command, outcome) ==
    IF dry THEN Step(TRUE, fs, <<>>, 0)
    ELSE Step(outcome = "exit0", fs, <<command>>, 0)

\* _create_directory
EnhancedCreateDirectory(dry, fs, dir_path) ==
    IF dry THEN Step(TRUE, fs, <<>>, 0)
    ELSE LET made == Mkdir(fs, Resolve(dir_path))
         IN  Step(made.ok, made.fs, <<>>, 1)

\* _create_file
EnhancedCreateFile(dry, fs, file_path, content) ==
    IF dry THEN Step(TRUE, fs, <<>>, 0)
    ELSE LET written == WriteFile(fs, Resolve(file_path), content)
         IN  Step(written.ok, written.fs, <<>>, 1)

\* _install_dependency: the package manager is looked up before dry_run
EnhancedInstallDependency(dry, fs, dependency, outcome) ==
    IF Exists(fs, <<"package.json">>)
    THEN EnhancedRunCommand(dry, fs, "npm install " \o dependency, outcome)
    ELSE IF Exists(fs, <<"requirements.txt">>) \/ Exists(fs, <<"pyproject.toml">>)
    THEN EnhancedRunCommand(dry, fs, "pip install " \o dependency, outcome)
    ELSE Step(TRUE, fs, <<>>, 0)

\* _execute_single_instruction
ExecuteSingleInstruction(dry, fs, instruction, outcome) ==
    CASE instruction.type = Str("directory") ->
            EnhancedCreateDirectory(dry, fs, instruction.target.s)
      [] instruction.type = Str("file") ->
            EnhancedCreateFile(dry, fs, instruction.target.s,
                               ContentOrEmpty(instruction.content))
      [] instruction.type = Str("dependency") ->
            EnhancedInstallDependency(dry, fs, instruction.target.s, outcome)
      [] instruction.type = Str("command") ->
            EnhancedRunCommand(dry, fs, instruction.target.s, outcome)
      [] OTHER -> Step(TRUE, fs, <<>>, 0)

\* what follows a build instruction of _execute_build_instructions: the
\* loop goes on whatever the instruction returned
AfterSingleInstruction(ok, position, n, posts) ==
    IF position < n THEN [phase |-> "build", result |-> "none"]
    ELSE IF posts > 0 THEN [phase |-> "post", result |-> "none"]
    ELSE [phase |-> "done", result |-> "True"]

\* TemplateEngine.generate_project_files for the detected framework: the
\* template's directories, then its files; an exception leaves the method
GenerateProjectFiles(fs) ==
    LET made == Mkdir(fs, <<"a">>)
    IN  IF ~made.ok THEN Step(FALSE, made.fs, <<>>, 1)
        ELSE LET written == WriteFile(made.fs, <<"package.json">>, "template")
             IN  Step(written.ok, written.fs, <<>>, 2)

\* _generate_from_templates
GenerateFromTemplates(dry, fs, framework) ==
    IF ~framework \/ dry THEN Step(TRUE, fs, <<>>, 0)
    ELSE GenerateProjectFiles(fs)

\* _generate_ai_files for one custom file: generated says whether
\* generate_with_fallback returned; every exception is caught and logged
GenerateAiFiles(dry, fs, custom_files, generated) ==
    IF ~custom_files \/ dry \/ ~generated THEN Step(TRUE, fs, <<>>, 0)
    ELSE LET written == WriteFile(fs, <<"a", "b">>, "generated")
         IN  Step(TRUE, written.fs, <<>>, 1)

\* execute_enhanced_build_plan up to the build instructions: the project
\* directory, the template files, the generated files
BeginEnhanced(dry, fs, framework, custom_files, generated) ==
    LET project == IF dry THEN [ok |-> TRUE, fs |-> fs] ELSE Mkdir(fs, <<>>)
        templates == GenerateFromTemplates(dry, project.fs, framework)
        files == GenerateAiFiles(dry, templates.fs, custom_files, generated)
    IN  IF ~project.ok THEN Step(FALSE, fs, <<>>, 1)
        ELSE IF ~templates.ok
        THEN Step(FALSE, templates.fs, <<>>, (IF dry THEN 0 ELSE 1) + templates.ops)
        ELSE Step(TRUE, files.fs, <<>>,
                  (IF dry THEN 0 ELSE 1) + templates.ops + files.ops)

(***************************************************************************)
(* Inputs of the executors: plans of at most MaxInstr instructions and     *)
(* MaxPost post-build commands, and the working directory they meet.       *)
(***************************************************************************)
MaxInstr == 2
MaxPost == 2

FileInstruction(target, content, order) ==
    [BuildInstruction("file", "create", Str(target), order)
        EXCEPT !.content = content]

\* the instructions the plans are made of; the order values make unsorted
\* plans and plans with equal orders
ExecInstructions ==
    {BuildInstruction("directory", "create", Str("a"), 0),
     FileInstruction("a/b", Str("x"), 0),
     FileInstruction("a/b", Str("y"), 1),
     FileInstruction("package.json", None, 0),
     BuildInstruction("dependency", "install", Str("react"), 1),
     BuildInstruction("command", "run", Str("npm run build"), 0)}

\* post-build command lists: the first commands of "npm test",
\* "npm run lint 1", "npm run lint 2", ...
PostCommand(i) == IF i = 1 THEN "npm test" ELSE "npm run lint " \o ToString(i - 1)
PostLists == {[i \in 1..n |-> PostCommand(i)] : n \in 0..MaxPost}

ExecPlans ==
    [build_instructions : SeqsUpTo(ExecInstructions, MaxInstr),
     post_build_commands : PostLists]

\* the root exists (the constructor creates the working directory)
EmptyDirectory == [q \in FsPaths |-> IF q = <<>> THEN DirEntry ELSE NoEntry]
InitialDirectories ==
    {EmptyDirectory,
     [EmptyDirectory EXCEPT ![<<"a">>] = FileEntry("y")],
     [EmptyDirectory EXCEPT ![<<"requirements.txt">>] = FileEntry("")],
     [EmptyDirectory EXCEPT ![<<"pyproject.toml">>] = FileEntry("")]}
\* the project directory of the enhanced engine may not exist yet
NoDirectory == [q \in FsPaths |-> NoEntry]

(***************************************************************************)
(* Content extraction of the document processors.  A file is its suffix   *)
(* and its bytes; a decoded string is its sequence of code points.        *)
(***************************************************************************)
MaxBytes == 2

Text(points) == [py |-> "str", cp |-> points]

\* the byte values files are made of: "A", a UTF-8 continuation byte, a
\* UTF-8 two-byte lead, and a byte that is a letter only in Latin-1
ByteValues == {65, 169, 195, 233}
ByteStrings == SeqsUpTo(ByteValues, MaxBytes)

Suffixes == {".docx", ".pdf", ".md", ".txt", ".html", ".xlsx", ".bin"}

\* what chardet.detect reports under the key "encoding"
DetectedEncodings == {None, Str("ascii"), Str("utf-8"), Str("ISO-8859-1"),
                      Str("Windows-1252")}

\* what the format library does with the file: text comes back or it raises
LibraryOutcomes == {"text", "raise"}

RECURSIVE Utf8Points(_, _)
\* bytes.decode("utf-8", errors): [ok, cp]
Utf8Points(raw, replace) ==
    IF raw = <<>> THEN [ok |-> TRUE, cp |-> <<>>]
    ELSE IF raw[1] < 128
    THEN LET rest == Utf8Points(Tail(raw), replace)
         IN  [ok |-> rest.ok, cp |-> <<raw[1]>> \o rest.cp]
    ELSE IF raw[1] \in 194..223 /\ Len(raw) >= 2 /\ raw[2] \in 128..191
    THEN LET rest == Utf8Points(Tail(Tail(raw)), replace)
         IN  [ok |-> rest.ok,
              cp |-> <<(raw[1] - 192) * 64 + (raw[2] - 128)>> \o rest.cp]
    ELSE IF replace
    THEN LET rest == Utf8Points(Tail(raw), replace)
         IN  [ok |-> rest.ok, cp |-> <<65533>> \o rest.cp]
    ELSE [ok |-> FALSE, cp |-> <<>>]

\* raw_data.decode(encoding)
Decode(raw, encoding) ==
    IF encoding.py # "str" THEN Raise("TypeError")
    ELSE IF encoding.s = "utf-8"
    THEN LET d == Utf8Points(raw, FALSE)
         IN  IF d.ok THEN Text(d.cp) ELSE Raise("UnicodeDecodeError")
    ELSE IF encoding.s = "ascii"
    THEN IF \A i \in 1..Len(raw) : raw[i] < 128
         THEN Text(raw) ELSE Raise("UnicodeDecodeError")
    ELSE IF encoding.s \in {"ISO-8859-1", "latin-1", "iso-8859-1"}
    THEN Text(raw)
    ELSE IF encoding.s \in {"Windows-1252", "cp1252"}
    THEN IF \A i \in 1..Len(raw) : raw[i] \notin {129, 141, 143, 144, 157}
         THEN Text(raw) ELSE Raise("UnicodeDecodeError")
    ELSE Raise("LookupError")

FallbackEncodings == <<"utf-8", "latin-1", "cp1252", "iso-8859-1">>

RECURSIVE DecodeWithFallbacks(_, _)
\* the loop over the common encodings, then errors='replace'
DecodeWithFallbacks(raw, k) ==
    IF k > Len(FallbackEncodings) THEN Text(Utf8Points(raw, TRUE).cp)
    ELSE LET content == Decode(raw, Str(FallbackEncodings[k]))
         IN  IF ~IsRaise(content) THEN content
             ELSE DecodeWithFallbacks(raw, k + 1)

\* DocumentProcessor._extract_text_with_encoding_detection
ExtractTextWithEncodingDetection(raw, detected_encoding) ==
    LET content == Decode(raw, detected_encoding)
    IN  IF ~IsRaise(content) THEN content
        ELSE IF content.exc = "UnicodeDecodeError"
        THEN DecodeWithFallbacks(raw, 1)
        ELSE content

\* what a format library hands back when it does not raise
LibraryText == Text(<<68>>)

\* open(file_path, 'r', encoding='utf-8').read()
ReadUtf8(raw) == Decode(raw, Str("utf-8"))

\* DocumentProcessor._extract_content_with_fallback
ExtractContentWithFallback(suffix, raw, detected_encoding, outcome) ==
    IF suffix \in {".docx", ".pdf"}
    THEN IF outcome = "text" THEN LibraryText
         ELSE ExtractTextWithEncodingDetection(raw, detected_encoding)
    ELSE IF suffix = ".md" THEN ReadUtf8(raw)
    ELSE ExtractTextWithEncodingDetection(raw, detected_encoding)

\* the registry of EnhancedDocumentProcessor.extractors
SpecificExtractor(suffix, raw, detected_encoding, outcome) ==
    IF suffix \in {".pdf", ".docx", ".pptx", ".xlsx"}
    THEN IF outcome = "text" THEN LibraryText ELSE Raise("Exception")
    ELSE IF suffix \in {".html", ".htm"}
    THEN LET html_content == ReadUtf8(raw)
         IN  IF IsRaise(html_content) THEN html_content
             ELSE IF outcome = "text" THEN LibraryText ELSE Raise("Exception")
    ELSE ExtractTextWithEncodingDetection(raw, detected_encoding)

\* EnhancedDocumentProcessor._extract_content_with_metadata (the content)
ExtractContentWithMetadata(suffix, raw, detected_encoding, outcome) ==
    LET specific == SpecificExtractor(suffix, raw, detected_encoding, outcome)
    IN  IF suffix \in {".pdf", ".docx", ".pptx", ".xlsx", ".html", ".htm",
                       ".md", ".txt"} /\ ~IsRaise(specific)
        THEN specific
        ELSE ExtractTextWithEncodingDetection(raw, detected_encoding)

(***************************************************************************)
(* Rule-based dependency extraction.  A line is the sequence of its       *)
(* whitespace-delimited tokens, joined by single blanks; a chunk is its    *)
(* type and its lines.                                                     *)
(***************************************************************************)
MaxTokens == 3

Tokens == {"npm", "install", "yarn", "add", "pip", "react", "-D", "sudo"}
DashTokens == {"-D"}
Lines == SeqsUpTo(Tokens, MaxTokens)

DocumentChunk(chunk_type, lines) == [chunk_type |-> chunk_type, lines |-> lines]

\* 'npm install' in line, for a line made of these tokens
Contains(line, first, second) ==
    \E i \in 1..(Len(line) - 1) : line[i] = first /\ line[i + 1] = second

\* parts[2:] without the parts starting with '-'
PartsFromThird(line) ==
    {line[i] : i \in {j \in 3..Len(line) : line[j] \notin DashTokens}}

\* the two scans of one line in _extract_dependencies
LineDependencies(line) ==
    (IF Contains(line, "npm", "install") \/ Contains(line, "yarn", "add")
     THEN PartsFromThird(line) ELSE {})
    \cup
    (IF Contains(line, "pip", "install") THEN PartsFromThird(line) ELSE {})

\* list(dependencies): a list in no particular order, without duplicates
ListOfSet(members) == [py |-> "list", members |-> members]

\* ArchitecturalSynthesisModule._extract_dependencies
ExtractDependencies(chunks) ==
  ListOfSet(
    UNION {UNION {LineDependencies(chunks[c].lines[l]) :
                     l \in 1..Len(chunks[c].lines)} :
              c \in {k \in 1..Len(chunks) : chunks[k].chunk_type = "command"}})

\* the chunks that may follow the first one
SecondChunks ==
    {<<>>,
     <<DocumentChunk("command", << <<"npm", "install", "next">> >>)>>,
     <<DocumentChunk("text", << <<"npm", "install", "next">> >>)>>,
     <<DocumentChunk("command", << <<"pip", "install", "-D">>,
                                   <<"yarn", "add", "next", "react">> >>)>>}

ChunkSequences ==
    {<<DocumentChunk(t, <<line>>)>> \o rest :
        t \in {"command", "text", "code"}, line \in Lines, rest \in SecondChunks}

(***************************************************************************)
(* builder.py: validate_build_plan.  The plan file is missing, or holds    *)
(* text that is not JSON, or holds a JSON document.                        *)
(***************************************************************************)
MissingFile == [js |-> "missing"]

\* bool(v)
Truthy(v) ==
    CASE v.py = "str" -> v.s # ""
      [] v.py = "int" -> v.n # 0
      [] v.py = "list" -> v.elems # <<>>
      [] v.py = "dict" -> v.items # <<>>
      [] OTHER -> FALSE

\* hash(v) is defined
Hashable(v) == v.py \notin {"list", "dict"}

\* mutant: duplicate order values make the validation fail
ValidateBuildPlanNoDuplicates(file) ==
    IF file.js \in {"missing", "invalid"} THEN FALSE
    ELSE LET build_plan == LoadBuildPlan(file)
         IN  IF IsRaise(build_plan) THEN FALSE
             ELSE IF ~Truthy(build_plan.project_name) THEN FALSE
             ELSE IF ~Truthy(build_plan.build_instructions) THEN FALSE
             ELSE LET insts == build_plan.build_instructions.elems
                  IN  \A i, j \in 1..Len(insts) :
                         insts[i].order = insts[j].order => i = j

\* CodeGenerationEngine.validate_build_plan
ValidateBuildPlan(file) ==
    IF file.js = "missing" THEN FALSE
    ELSE IF file.js = "invalid" THEN FALSE
    ELSE LET build_plan == LoadBuildPlan(file)
         IN  IF IsRaise(build_plan) THEN FALSE
             ELSE IF ~Truthy(build_plan.project_name) THEN FALSE
             ELSE IF ~Truthy(build_plan.build_instructions) THEN FALSE
             ELSE LET insts == build_plan.build_instructions.elems
                  IN  \A i \in 1..Len(insts) : Hashable(insts[i].order)

\* the instructions of the plan files: orders 0, 0 and 1, and a dict
\* without the required target
FileInstructions ==
    {AsDictInstruction(BuildInstruction("directory", "create", Str("a"), 0)),
     AsDictInstruction(BuildInstruction("command", "run", Str("npm test"), 0)),
     AsDictInstruction(BuildInstruction("command", "run", Str("npm test"), 1)),
     Dict(<<Item("type", Str("file")), Item("action", Str("create"))>>)}

PlanDict(project_name, insts) ==
    Dict(<<Item("project_name", project_name),
           Item("description", Str("")),
           Item("technology_stack", List(<<>>)),
           Item("directory_structure", Dict(<<>>)),
           Item("dependencies", List(<<>>)),
           Item("build_instructions", List(insts)),
           Item("environment_variables", Dict(<<>>)),
           Item("post_build_commands", List(<<>>)),
           Item("metadata", Dict(<<>>))>>)

PlanFiles ==
    {MissingFile, NonJsonText, Dump(List(<<>>)),
     Dump(Dict(<<Item("project_name", Str("p"))>>))}
    \cup {Dump(PlanDict(name, insts)) :
            name \in {Str(""), Str("p"), Str("q")},
            insts \in SeqsUpTo(FileInstructions, MaxInstr)}

(***************************************************************************)
(* Chunking.  A section is the sequence of its words; a word carries its  *)
(* position in the section, the number of tokens the encoder gives it,    *)
(* and whether it ends a sentence ('.', '!' or '?' before whitespace).     *)
(***************************************************************************)
MaxWords == 4
MaxChunkSize == 4
MaxOverlapSize == 3
MaxWordTokens == 2

\* the sub-chunks of the first MaxIterations iterations of the loop of
\* _split_with_overlap are kept; a call that returns makes no more than one
\* iteration per word
MaxIterations == MaxWords + 2

\* below this value of start every slice is empty and the loop goes on
StartFloor(words, max_words) == 0 - (Len(words) + max_words)

Max(a, b) == IF a > b THEN a ELSE b

Word(id, tokens, stop) == [id |-> id, tokens |-> tokens, stop |-> stop]

Sections ==
    UNION {[1..n -> (1..MaxWordTokens) \X BOOLEAN] : n \in 1..MaxWords}

\* the section whose words have the token counts and sentence ends of f
SectionOf(f) == [i \in DOMAIN f |-> Word(i, f[i][1], f[i][2])]

RECURSIVE CountTokens(_)
\* _count_tokens of the words joined by blanks
CountTokens(words) ==
    IF words = <<>> THEN 0 ELSE words[1].tokens + CountTokens(Tail(words))

\* int(size * 0.75)
WordsFor(size) == (3 * size) \div 4

\* the index a slice bound stands for in a list of n elements
SliceIndex(i, n) ==
    IF i < 0 THEN (IF i + n < 0 THEN 0 ELSE i + n)
    ELSE IF i > n THEN n ELSE i

\* words[start:end]
Slice(words, start, end) ==
    SubSeq(words, SliceIndex(start, Len(words)) + 1,
           SliceIndex(end, Len(words)))

Min(a, b) == IF a < b THEN a ELSE b

\* start = end - overlap_words
NextStart(end, overlap_words) == end - overlap_words

RECURSIVE Sentences(_, _)
\* re.split(r'(?<=[.!?])\s+', section): cur is the sentence being read
Sentences(words, cur) ==
    IF words = <<>> THEN (IF cur = <<>> THEN <<>> ELSE <<cur>>)
    ELSE IF words[1].stop /\ Len(words) > 1
    THEN <<Append(cur, words[1])>> \o Sentences(Tail(words), <<>>)
    ELSE Sentences(Tail(words), Append(cur, words[1]))

RECURSIVE GatherSentences(_, _, _)
\* the loop of _split_large_section over the sentences left
GatherSentences(sentences, current_chunk, max_chunk_size) ==
    IF sentences = <<>>
    THEN (IF current_chunk = <<>> THEN <<>> ELSE <<current_chunk>>)
    ELSE LET test_chunk == current_chunk \o sentences[1]
         IN  IF CountTokens(test_chunk) > max_chunk_size
             THEN (IF current_chunk = <<>> THEN <<>> ELSE <<current_chunk>>)
                  \o GatherSentences(Tail(sentences), sentences[1],
                                     max_chunk_size)
             ELSE GatherSentences(Tail(sentences), test_chunk, max_chunk_size)

\* DocumentProcessor._split_large_section
SplitLargeSection(section, max_chunk_size) ==
    GatherSentences(Sentences(section, <<>>), <<>>, max_chunk_size)

\* DocumentProcessor._chunk_content on a text of one section
ChunkContent(section, max_chunk_size) ==
    IF CountTokens(section) > max_chunk_size
    THEN SplitLargeSection(section, max_chunk_size)
    ELSE <<section>>

(***************************************************************************)
(* ai_providers.py: the provider manager.                                  *)
(***************************************************************************)
\* the values of the enum AIProvider
AIProviders ==
    {"openai", "anthropic", "azure_openai", "local_ollama", "huggingface"}

\* AIProviderManager.provider_priority
ProviderPriority == <<"openai", "anthropic", "local_ollama">>

\* the keys _initialize_providers can leave in self.providers
ConfiguredProviders ==
    {keyed \cup {"local_ollama"} : keyed \in SUBSET {"openai", "anthropic"}}

RECURSIVE AddInPriority(_, _, _)
\* the loop over provider_priority, from its i-th element on
AddInPriority(to_try, configured, i) ==
    IF i > Len(ProviderPriority) THEN to_try
    ELSE LET provider_type == ProviderPriority[i]
         IN  AddInPriority(
                 IF provider_type \notin SeqToSet(to_try)
                    /\ provider_type \in configured
                 THEN Append(to_try, provider_type) ELSE to_try,
                 configured, i + 1)

\* mutant: the preferred provider is not put first
ProvidersToTryPriorityOnly(configured, preferred) ==
    AddInPriority(<<>>, configured, 1)

\* generate_with_fallback: providers_to_try
ProvidersToTry(configured, preferred) ==
    AddInPriority(IF preferred # None /\ preferred.s \in configured
                  THEN <<preferred.s>> ELSE <<>>,
                  configured, 1)

AIResponse(provider) == [py |-> "AIResponse", provider |-> provider]

(***************************************************************************)
(* enhanced_asm.py: validation of the generated plan and the construction  *)
(* of the EnhancedBuildPlan.                                               *)
(***************************************************************************)
\* BuildInstruction(type=inst_data.get('type', 'command'), ...,
\* order=inst_data.get('step', i))
EnhancedInstruction(inst_data, i) ==
    IF inst_data.py # "dict" THEN Raise("AttributeError")
    ELSE [py |-> "BuildInstruction",
          type |-> Get(inst_data, "type", Str("command")),
          action |-> Get(inst_data, "action", Str("run")),
          target |-> Get(inst_data, "target", Str("")),
          content |-> Get(inst_data, "content", None),
          dependencies |-> Get(inst_data, "dependencies", None),
          order |-> Get(inst_data, "step", PyInt(i))]

RECURSIVE MissingFields(_, _, _)
\* one message per field of fields that is no key of d, in order
MissingFields(d, fields, message) ==
    IF fields = <<>> THEN <<>>
    ELSE (IF fields[1] \in KeysOf(d.items) THEN <<>>
          ELSE <<message \o fields[1]>>)
         \o MissingFields(d, Tail(fields), message)

RECURSIVE InstructionErrors(_, _)
\* the errors of the instructions from index i (counted from 0) on
InstructionErrors(elems, i) ==
    IF i >= Len(elems) THEN <<>>
    ELSE (IF elems[i + 1].py # "dict"
          THEN <<"Instruction " \o ToString(i) \o " must be a dictionary">>
          ELSE <<>>)
         \o InstructionErrors(elems, i + 1)

RECURSIVE InstructionWarnings(_, _)
\* the warnings of the instructions from index i (counted from 0) on
InstructionWarnings(elems, i) ==
    IF i >= Len(elems) THEN <<>>
    ELSE (IF elems[i + 1].py # "dict" THEN <<>>
          ELSE MissingFields(elems[i + 1], <<"type", "action", "target">>,
                   "Instruction " \o ToString(i) \o " missing field: "))
         \o InstructionWarnings(elems, i + 1)

\* len(v) is defined
HasLen(v) == v.py \in {"list", "dict", "str"}

\* len(v) == 0
IsEmpty(v) ==
    CASE v.py = "list" -> v.elems = <<>>
      [] v.py = "dict" -> v.items = <<>>
      [] v.py = "str" -> v.s = ""
      [] OTHER -> FALSE

\* EnhancedArchitecturalSynthesisModule._validate_build_plan
EnhancedValidateBuildPlan(data) ==
    LET has(field) == field \in KeysOf(data.items)
        missing == MissingFields(data,
                       <<"project_name", "technology_stack",
                         "build_instructions">>,
                       "Missing required field: ")
        listed == Get(data, "build_instructions", None)
        not_list == has("build_instructions") /\ listed.py # "list"
        checked == has("build_instructions") /\ listed.py = "list"
        tech_stack == Get(data, "technology_stack", None)
        deps == Get(data, "dependencies", None)
        with_packages ==
            has("dependencies") /\ deps.py = "dict"
            /\ "packages" \in KeysOf(deps.items)
        packages == Get(deps, "packages", None)
    IN  IF with_packages /\ ~HasLen(packages) THEN Raise("TypeError")
        ELSE [py |-> "dict",
              is_valid |-> missing = <<>> /\ ~not_list,
              warnings |->
                  (IF checked THEN InstructionWarnings(listed.elems, 0)
                   ELSE <<>>)
                  \o (IF has("technology_stack") /\ tech_stack.py # "list"
                      THEN <<"technology_stack should be a list">> ELSE <<>>)
                  \o (IF with_packages /\ IsEmpty(packages)
                      THEN <<"No dependencies specified">> ELSE <<>>),
              errors |->
                  missing
                  \o (IF not_list THEN <<"build_instructions must be a list">>
                      ELSE <<>>)
                  \o (IF checked THEN InstructionErrors(listed.elems, 0)
                      ELSE <<>>),
              suggestions |-> <<>>]

\* ai_analysis.get('_ai_metadata', {}).get(key, default)
AiMetadata(ai_analysis, key, default) ==
    Get(Get(ai_analysis, "_ai_metadata", Dict(<<>>)), key, default)

\* EnhancedArchitecturalSynthesisModule._create_enhanced_build_plan;
\* confidences are in hundredths
CreateEnhancedBuildPlan(data, ai_analysis, results) ==
    LET listed == IF "build_instructions" \in KeysOf(data.items)
                  THEN Iter(Get(data, "build_instructions", None))
                  ELSE List(<<>>)
    IN  IF IsRaise(listed) THEN listed
        ELSE LET converted == [k \in 1..Len(listed.elems) |->
                                  EnhancedInstruction(listed.elems[k], k - 1)]
                 deps == Get(data, "dependencies", None)
             IN  IF \E k \in 1..Len(converted) : IsRaise(converted[k])
                 THEN Raise("AttributeError")
                 ELSE [py |-> "EnhancedBuildPlan",
                       project_name |->
                           Get(data, "project_name", Str("generated-project")),
                       description |->
                           Get(data, "description",
                               Str("AI-generated application")),
                       technology_stack |->
                           Get(data, "technology_stack", List(<<>>)),
                       directory_structure |->
                           Get(data, "directory_structure", Dict(<<>>)),
                       dependencies |->
                           IF deps.py = "dict"
                           THEN Get(deps, "packages", List(<<>>))
                           ELSE Get(data, "dependencies", List(<<>>)),
                       build_instructions |-> List(converted),
                       environment_variables |->
                           Get(data, "environment_variables", Dict(<<>>)),
                       post_build_commands |->
                           Get(data, "post_build_commands", List(<<>>)),
                       ai_analysis |-> ai_analysis,
                       confidence_score |->
                           (AiMetadata(ai_analysis, "confidence", PyInt(50)).n
                            + (IF results.is_valid THEN 100 ELSE 30)) \div 2,
                       provider_used |->
                           AiMetadata(ai_analysis, "provider", Str("fallback")),
                       generation_metadata |->
                           Get(data, "_ai_metadata", Dict(<<>>)),
                       validation_results |-> results]

\* steps 3 and 4 of synthesize_architecture_enhanced
ValidateAndCreate(data, ai_analysis) ==
    LET results == EnhancedValidateBuildPlan(data)
    IN  IF IsRaise(results) THEN [results |-> results, plan |-> results]
        ELSE [results |-> results,
              plan |-> CreateEnhancedBuildPlan(data, ai_analysis, results)]

\* _fallback_analysis for chunks without entities
FallbackAnalysis ==
    Dict(<<Item("_ai_metadata",
                Dict(<<Item("provider", Str("rule_based_fallback")),
                       Item("confidence", PyInt(60))>>))>>)

\* the metadata _generate_build_plan adds to a parsed response
ResponseMetadata ==
    Dict(<<Item("provider", Str("openai")), Item("confidence", PyInt(90))>>)

\* _fallback_build_plan(FallbackAnalysis, chunks)
FallbackBuildPlan ==
    Dict(<<Item("project_name", Str("generated-project")),
           Item("description", Str("Generated application")),
           Item("technology_stack", List(<<>>)),
           Item("dependencies", List(<<>>)),
           Item("build_instructions",
                List(<<Dict(<<Item("step", PyInt(1)),
                              Item("type", Str("directory")),
                              Item("action", Str("create")),
                              Item("target", Str("src")),
                              Item("description",
                                   Str("Create source directory"))>>)>>)),
           Item("environment_variables", Dict(<<>>)),
           Item("post_build_commands", List(<<>>)),
           Item("_ai_metadata",
                Dict(<<Item("provider", Str("rule_based_fallback")),
                       Item("confidence", PyInt(50))>>))>>)

MaxEntries == 2

\* entries a generated build_instructions list can hold
GeneratedEntries ==
    {Dict(<<Item("type", Str("file")), Item("action", Str("create")),
            Item("target", Str("a"))>>),
     Dict(<<Item("step", PyInt(5)), Item("type", Str("command"))>>),
     Str("ab"), None}

\* values a generated document can have under build_instructions
GeneratedInstructionValues ==
    {Absent, None, PyInt(1), Str(""), Str("ab"), Dict(<<>>),
     Dict(<<Item("type", Str("file"))>>)}
    \cup {List(q) : q \in SeqsUpTo(GeneratedEntries, MaxEntries)}

GeneratedDependencyValues ==
    {Absent, List(<<Str("react")>>), Dict(<<>>),
     Dict(<<Item("packages", List(<<>>))>>),
     Dict(<<Item("packages", PyInt(0))>>)}

\* the parsed generation results: a JSON object with the metadata
\* _generate_build_plan adds, or the rule-based plan
GenerationResults ==
    {FallbackBuildPlan}
    \cup {Dict(FieldItems("project_name", name)
               \o FieldItems("technology_stack", stack)
               \o FieldItems("build_instructions", insts)
               \o FieldItems("dependencies", deps)
               \o <<Item("_ai_metadata", ResponseMetadata)>>) :
            name \in {Absent, Str("p")},
            stack \in {Absent, List(<<Str("react")>>), Str("react")},
            insts \in GeneratedInstructionValues,
            deps \in GeneratedDependencyValues}

(***************************************************************************)
(* enhanced_ingestion.py: classification of a chunk.  A content is the     *)
(* sequence of its lines; the sets below hold the lines of LineTexts that  *)
(* each test of _classify_content_type_enhanced accepts.                   *)
(***************************************************************************)
MaxLines == 2

LineTexts ==
    {"# Title", "SETUP:", "import os", "port: 80", "see package.json",
     "run npm install now", "| a | b |", "- first item", "> quoted words",
     "+---+", "plain words here", "- run npm install", "[fence]",
     "> see | a | b |", "// note", "1. step"}

\* the tests of _classify_content_type_enhanced each line passes:
\*   hash_header  re.match(r'^#+\s', content), on the first line
\*   capital      re.match(r'^[A-Z][^a-z]*:?\s*$', content, re.MULTILINE):
\*                a first line that starts with a capital and has no small
\*                letter
\*   fence        a code fence in content; "[fence]" stands for the line
\*                of three backquotes
\*   slashes      content.startswith('//')
\*   hash         content.startswith('#')
\*   keyword      ^\s*(def|class|function|import|from|const|let|var)\s
\*   extension    '.json', '.yaml', '.yml', '.toml' or '.env' in the line
\*   assignment   ^\s*[\w-]+\s*[:=]
\*   command      'npm install', 'npx', 'cd ', 'mkdir', 'git ', 'pip install'
\*   pipes        \|.*\|.*\|
\*   bullet       ^\s*[-*+]\s
\*   numbered     ^\s*\d+\.\s
\*   quote        ^\s*>
\*   art          a box-drawing character, or [+\-|]{3,}
LineTests ==
    [line \in LineTexts |->
        CASE line = "# Title" -> {"hash_header", "hash"}
          [] line = "SETUP:" -> {"capital", "assignment"}
          [] line = "import os" -> {"keyword"}
          [] line = "port: 80" -> {"assignment"}
          [] line = "see package.json" -> {"extension"}
          [] line = "run npm install now" -> {"command"}
          [] line = "| a | b |" -> {"pipes"}
          [] line = "- first item" -> {"bullet"}
          [] line = "> quoted words" -> {"quote"}
          [] line = "+---+" -> {"art"}
          [] line = "- run npm install" -> {"command", "bullet"}
          [] line = "[fence]" -> {"fence"}
          [] line = "> see | a | b |" -> {"pipes", "quote"}
          [] line = "// note" -> {"slashes"}
          [] line = "1. step" -> {"numbered"}
          [] OTHER -> {}]

Contents == {q \in SeqsUpTo(LineTexts, MaxLines) : q # <<>>}

\* the content starts with a line that passes the test
FirstLine(lines, test) == test \in LineTests[lines[1]]
\* some line of the content passes the test
AnyLine(lines, test) == \E i \in 1..Len(lines) : test \in LineTests[lines[i]]

IsSectionHeader(lines) ==
    FirstLine(lines, "hash_header") \/ FirstLine(lines, "capital")
IsCode(lines) ==
    \/ AnyLine(lines, "fence")
    \/ FirstLine(lines, "slashes")
    \/ FirstLine(lines, "hash")
    \/ AnyLine(lines, "keyword")
IsConfig(lines) == AnyLine(lines, "extension") \/ AnyLine(lines, "assignment")
IsCommand(lines) == AnyLine(lines, "command")
IsTable(lines) == AnyLine(lines, "pipes")
IsList(lines) == AnyLine(lines, "bullet") \/ AnyLine(lines, "numbered")
IsQuote(lines) == FirstLine(lines, "quote") \/ AnyLine(lines, "quote")
IsDiagram(lines) == AnyLine(lines, "art")

\* mutant: the code test comes before the header test
ClassifyCodeFirst(lines) ==
    IF IsCode(lines) THEN "code"
    ELSE IF IsSectionHeader(lines) THEN "section_header"
    ELSE IF IsConfig(lines) THEN "config"
    ELSE IF IsCommand(lines) THEN "command"
    ELSE IF IsTable(lines) THEN "table"
    ELSE IF IsList(lines) THEN "list"
    ELSE IF IsQuote(lines) THEN "quote"
    ELSE IF IsDiagram(lines) THEN "diagram"
    ELSE "text"

\* EnhancedDocumentProcessor._classify_content_type_enhanced
ClassifyContentTypeEnhanced(lines) ==
    IF IsSectionHeader(lines) THEN "section_header"
    ELSE IF IsCode(lines) THEN "code"
    ELSE IF IsConfig(lines) THEN "config"
    ELSE IF IsCommand(lines) THEN "command"
    ELSE IF IsTable(lines) THEN "table"
    ELSE IF IsList(lines) THEN "list"
    ELSE IF IsQuote(lines) THEN "quote"
    ELSE IF IsDiagram(lines) THEN "diagram"
    ELSE "text"

(***************************************************************************)
(* cache_manager.py.  The in-memory index self.cache is a dict: here the   *)
(* sequence of its items in insertion order.  Times are in hours, sizes in *)
(* the unit max_size_bytes is given in.                                    *)
(***************************************************************************)
MaxSizeUnits == 3
MaxTime == 2
MaxCalls == 3
MaxThreadCalls == 3
DefaultTtlHours == 2

CacheKeys == {"k1", "k2"}

Tuple(elems) == [py |-> "tuple", elems |-> elems]
Bool(b) == [py |-> "bool", b |-> b]
\* an instance of a class pickle can store
PickledObject == [py |-> "object"]
\* a value pickle.dumps rejects
Unpicklable == [py |-> "lambda"]

\* the values handed to set
CacheValues ==
    {Str("a"), List(<<Tuple(<<PyInt(1)>>)>>), PickledObject, Unpicklable}

RECURSIVE JsonDumps(_)
\* json.dumps(value): lists and tuples both become arrays
JsonDumps(v) ==
    CASE v.py = "str" -> [js |-> "string", s |-> v.s]
      [] v.py = "int" -> [js |-> "number", n |-> v.n]
      [] v.py = "None" -> [js |-> "null"]
      [] v.py \in {"list", "tuple"} ->
            [js |-> "array",
             elems |-> [i \in 1..Len(v.elems) |-> JsonDumps(v.elems[i])]]

\* _serialize_value: JSON for the listed types, pickle otherwise
SerializeValue(v) ==
    IF v.py \in {"dict", "list", "str", "int", "None"}
    THEN [py |-> "bytes", format |-> "json", doc |-> JsonDumps(v)]
    ELSE IF v = Unpicklable THEN Raise("PicklingError")
    ELSE [py |-> "bytes", format |-> "pickle", obj |-> v]

\* the file a failed write leaves behind
EmptyBytes == [py |-> "bytes", format |-> "empty"]

\* _deserialize_value
DeserializeValue(data) ==
    CASE data.format = "json" -> Load(data.doc)
      [] data.format = "pickle" -> data.obj
      [] OTHER -> Raise("EOFError")

RECURSIVE JsonLength(_)
\* the length of the text of a JSON document, a scalar counted as 1 and
\* an array as 1 more than its elements
JsonLength(j) ==
    IF j.js = "array"
    THEN IF j.elems = <<>> THEN 1
         ELSE JsonLength(j.elems[1])
              + JsonLength([js |-> "array", elems |-> Tail(j.elems)])
    ELSE 1

\* len(serialized_value)
SerializedSize(data) ==
    IF data.format = "json" THEN JsonLength(data.doc) ELSE 2

CacheEntry(created_at, accessed_at, ttl, size_bytes) ==
    [created_at |-> created_at, accessed_at |-> accessed_at, ttl |-> ttl,
     size_bytes |-> size_bytes]

\* a CacheManager: self.cache, the .cache files, cache_index.json
CacheState(items, files, index) ==
    [items |-> items, files |-> files, index |-> index]

\* cache_key in self.cache
InCache(items, key) == \E i \in 1..Len(items) : items[i].key = key

\* self.cache[cache_key]
EntryOf(items, key) ==
    items[CHOOSE i \in 1..Len(items) : items[i].key = key].val

\* del self.cache[cache_key]
WithoutKey(items, key) == SelectSeq(items, LAMBDA it : it.key # key)

\* self.cache[cache_key] = entry: a new key goes last, an old one keeps
\* its place
WithEntry(items, key, entry) ==
    IF InCache(items, key)
    THEN [i \in 1..Len(items) |->
             IF items[i].key = key THEN Item(key, entry) ELSE items[i]]
    ELSE Append(items, Item(key, entry))

\* the file name -> contents map without the file of key
WithoutFile(files, key) == [k \in DOMAIN files \ {key} |-> files[k]]

\* the file name -> contents map with the file of key holding data
WithFile(files, key, data) ==
    [k \in DOMAIN files \cup {key} |-> IF k = key THEN data ELSE files[k]]

\* _is_expired
IsExpired(entry, now) ==
    IF entry.ttl = None THEN FALSE
    ELSE now > entry.created_at + entry.ttl.n

\* _remove_entry
RemoveEntry(st, key) ==
    IF InCache(st.items, key)
    THEN CacheState(WithoutKey(st.items, key), WithoutFile(st.files, key),
                    st.index)
    ELSE st

RECURSIVE RemoveEntries(_, _)
\* _remove_entry for each key of keys in turn
RemoveEntries(st, keys) ==
    IF keys = <<>> THEN st
    ELSE RemoveEntries(RemoveEntry(st, keys[1]), Tail(keys))

\* _save_cache_index
SaveCacheIndex(st) == CacheState(st.items, st.files, st.items)

RECURSIVE TotalSize(_)
\* sum(entry.size_bytes for entry in self.cache.values())
TotalSize(items) ==
    IF items = <<>> THEN 0
    ELSE items[1].val.size_bytes + TotalSize(Tail(items))

RECURSIVE InsertByAccess(_, _)
\* it put into the sorted sequence behind every item accessed no later
InsertByAccess(sorted, it) ==
    IF sorted = <<>> THEN <<it>>
    ELSE IF sorted[1].val.accessed_at <= it.val.accessed_at
    THEN <<sorted[1]>> \o InsertByAccess(Tail(sorted), it)
    ELSE <<it>> \o sorted

RECURSIVE SortedByAccess(_)
\* sorted(self.cache.items(), key=lambda x: x[1].accessed_at), stable
SortedByAccess(items) ==
    IF items = <<>> THEN <<>>
    ELSE InsertByAccess(SortedByAccess(SubSeq(items, 1, Len(items) - 1)),
                        items[Len(items)])

RECURSIVE EvictedKeys(_, _, _)
\* the first loop of _evict_lru over the sorted entries left
EvictedKeys(sorted_entries, freed_bytes, required_bytes) ==
    IF sorted_entries = <<>> \/ freed_bytes >= required_bytes THEN <<>>
    ELSE <<sorted_entries[1].key>>
         \o EvictedKeys(Tail(sorted_entries),
                        freed_bytes + sorted_entries[1].val.size_bytes,
                        required_bytes)

RECURSIVE SizeOfKeys(_, _)
SizeOfKeys(items, keys) ==
    IF keys = <<>> THEN 0
    ELSE EntryOf(items, keys[1]).size_bytes + SizeOfKeys(items, Tail(keys))

\* mutant: eviction stops after the first entry and reports success
EnsureSpaceMissingOnly(st, required_bytes, max_size_bytes) ==
    LET current_size == TotalSize(st.items)
    IN  IF current_size + required_bytes <= max_size_bytes
        THEN [ok |-> TRUE, st |-> st, evicted |-> <<>>]
        ELSE LET evicted_keys == EvictedKeys(SortedByAccess(st.items), 0, 1)
             IN  [ok |-> TRUE, st |-> RemoveEntries(st, evicted_keys),
                  evicted |-> evicted_keys]

\* _ensure_space with _evict_lru
EnsureSpace(st, required_bytes, max_size_bytes) ==
    LET current_size == TotalSize(st.items)
    IN  IF current_size + required_bytes <= max_size_bytes
        THEN [ok |-> TRUE, st |-> st, evicted |-> <<>>]
        ELSE LET evicted_keys ==
                     EvictedKeys(SortedByAccess(st.items), 0, required_bytes)
             IN  [ok |-> SizeOfKeys(st.items, evicted_keys) >= required_bytes,
                  st |-> RemoveEntries(st, evicted_keys),
                  evicted |-> evicted_keys]

\* what an operation hands back: its return value, the state it leaves and
\* the keys it logged as evicted
Outcome(value, st, evicted) == [value |-> value, st |-> st, evicted |-> evicted]

\* the outcomes of _save_value: the value written, or the file opened with
\* mode 'wb', which empties it, and the write failing
WriteOutcomes == {"written", "write_fails"}

\* CacheManager.get
CacheGet(st, key, now) ==
    IF ~InCache(st.items, key) THEN Outcome(None, st, <<>>)
    ELSE LET entry == EntryOf(st.items, key)
         IN  IF IsExpired(entry, now)
             THEN Outcome(None, RemoveEntry(st, key), <<>>)
             ELSE LET touched ==
                          CacheState(
                              WithEntry(st.items, key,
                                  [entry EXCEPT !.accessed_at = now]),
                              st.files, st.index)
                      loaded == IF key \in DOMAIN st.files
                                THEN DeserializeValue(st.files[key])
                                ELSE None
                  IN  Outcome(IF IsRaise(loaded) THEN None ELSE loaded,
                              touched, <<>>)

\* ttl = (ttl_hours * 3600) if ttl_hours else self.default_ttl
TtlOf(ttl_hours) ==
    IF ttl_hours # None /\ ttl_hours.n # 0 THEN ttl_hours
    ELSE PyInt(DefaultTtlHours)

\* CacheManager.set
CacheSet(st, key, value, ttl_hours, now, written, max_size_bytes) ==
    LET serialized_value == SerializeValue(value)
    IN  IF IsRaise(serialized_value) THEN Outcome(Bool(FALSE), st, <<>>)
        ELSE LET size_bytes == SerializedSize(serialized_value)
                 space == EnsureSpace(st, size_bytes, max_size_bytes)
             IN  IF ~space.ok THEN Outcome(Bool(FALSE), space.st, space.evicted)
                 ELSE IF written = "write_fails"
                 THEN Outcome(Bool(FALSE),
                          CacheState(space.st.items,
                              WithFile(space.st.files, key, EmptyBytes),
                              space.st.index),
                          space.evicted)
                 ELSE Outcome(Bool(TRUE),
                          SaveCacheIndex(
                              CacheState(
                                  WithEntry(space.st.items, key,
                                      CacheEntry(now, now, TtlOf(ttl_hours),
                                                 size_bytes)),
                                  WithFile(space.st.files, key,
                                           serialized_value),
                                  space.st.index)),
                          space.evicted)

\* CacheManager.delete
CacheDelete(st, key) ==
    IF InCache(st.items, key)
    THEN Outcome(Bool(TRUE), SaveCacheIndex(RemoveEntry(st, key)), <<>>)
    ELSE Outcome(Bool(FALSE), st, <<>>)

\* the keys of the items, in order
KeySeq(items) == [i \in 1..Len(items) |-> items[i].key]

\* CacheManager.clear
CacheClear(st) ==
    Outcome(None, SaveCacheIndex(RemoveEntries(st, KeySeq(st.items))), <<>>)

\* _cleanup_expired
CleanupExpired(st, now) ==
    RemoveEntries(st, KeySeq(SelectSeq(st.items,
                                       LAMBDA it : IsExpired(it.val, now))))

\* CacheManager.cleanup
CacheCleanup(st, now) ==
    Outcome(None, SaveCacheIndex(CleanupExpired(st, now)), <<>>)

\* CacheManager.get_stats: total_entries and total_size_bytes
CacheGetStats(st) ==
    Outcome([total_entries |-> Len(st.items),
             total_size_bytes |-> TotalSize(st.items)], st, <<>>)

\* the threads that use the CacheManager at the same time
Threads == {"t1", "t2"}

\* mutant: the lock is handed out while it is held
CanAcquireAlways(holder) == TRUE

\* Lock.acquire returns when no thread holds the lock
CanAcquire(holder) == holder = "free"

\* what the methods can be called with
CacheCalls ==
    [op : {"get", "delete"}, key : CacheKeys]
    \cup [op : {"set"}, key : CacheKeys, value : CacheValues,
          ttl_hours : {None, PyInt(1)}]
    \cup [op : {"clear", "cleanup", "get_stats"}]

\* the calls the concurrent threads make
ThreadCalls ==
    {call \in CacheCalls :
        call.op \in {"get", "set", "delete"} =>
            /\ call.key = "k1"
            /\ call.op = "set" => call.value = Str("a") /\ call.ttl_hours = None}

\* the body of the called method, run under the lock
RunCall(call, st, clock, written, max_bytes) ==
    CASE call.op = "get" -> CacheGet(st, call.key, clock)
      [] call.op = "set" ->
            CacheSet(st, call.key, call.value, call.ttl_hours, clock,
                     written, max_bytes)
      [] call.op = "delete" -> CacheDelete(st, call.key)
      [] call.op = "clear" -> CacheClear(st)
      [] call.op = "cleanup" -> CacheCleanup(st, clock)
      [] call.op = "get_stats" -> CacheGetStats(st)

(***************************************************************************)
(* asm.py: the file structure.  A path is the list of its parts, as        *)
(* path.split gives them; the structure is a dict of dicts and strings.    *)
(***************************************************************************)
MaxParts == 2
MaxInserts == 2

PartNames == {"src", "app.js"}
StructurePaths == SeqsUpTo(PartNames, MaxParts) \ {<<>>}
ItemTypes == {"file", "directory"}

RECURSIVE AddToStructure(_, _, _)
\* _add_to_structure from the node current on: a part that is missing
\* becomes an empty dict, the last part is bound to item_type.  On a node
\* that is a string the assignment current[part] = ... and the lookup
\* current[part] both raise TypeError.
AddToStructure(current, parts, item_type) ==
    IF current.py # "dict" THEN Raise("TypeError")
    ELSE IF Len(parts) = 1
    THEN Dict(WithEntry(current.items, parts[1], Str(item_type)))
    ELSE LET below == AddToStructure(Get(current, parts[1], Dict(<<>>)),
                                     Tail(parts), item_type)
         IN  IF IsRaise(below) THEN below
             ELSE Dict(WithEntry(current.items, parts[1], below))

(***************************************************************************)
(* prompt_engineering.py: the format check of a response.                  *)
(***************************************************************************)
PromptTypes ==
    {"architecture_analysis", "technology_extraction", "dependency_analysis",
     "build_plan_generation", "code_generation", "validation"}

PromptTemplate(validation_schema) ==
    [py |-> "PromptTemplate", validation_schema |-> validation_schema]

\* _initialize_templates: three templates, none is given a
\* validation_schema, so the field keeps its default None
Templates ==
    [t \in {"architecture_analysis", "build_plan_generation",
            "code_generation"} |-> PromptTemplate(None)]

\* validate_response_format
ValidateResponseFormat(response, prompt_type) ==
    IF \/ prompt_type \notin DOMAIN Templates
       \/ ~Truthy(Templates[prompt_type].validation_schema)
    THEN Bool(TRUE)
    ELSE IF prompt_type \in {"architecture_analysis", "build_plan_generation"}
    THEN LET loaded == JsonLoads(response)
         IN  IF loaded = Raise("JSONDecodeError") THEN Bool(FALSE)
             ELSE IF IsRaise(loaded) THEN loaded
             ELSE Bool(TRUE)
    ELSE Bool(TRUE)

\* the responses checked: text that is not JSON, and JSON documents
FormatResponses == {NonJsonText} \cup {Dump(v) : v \in GeneratedValues}

(***************************************************************************)
(* State.                                                                  *)
(***************************************************************************)
VARIABLES
    plan,           \* the analysis dict handed to the compiler
    instructions,   \* what _create_build_instructions returned or raised
    cpc,            \* compiler: "ready" before the call, "done" after it
    client,         \* ArchitecturalSynthesisModule.client is configured
    extracted,      \* what the rule-based extractors return for the chunks
    chunks,         \* base_chunks + overlay_chunks
    response,       \* the outcome of the generation call
    output_path,    \* synthesize_architecture's output_path is given
    build_plan,     \* what synthesize_architecture returned or raised
    plan_file,      \* the content of UnifiedBuildPlan.json
    loaded_plan,    \* what _load_build_plan returned or raised
    spc,            \* synthesis: "ready", "returned", "raised", "loaded"
    engine,         \* "basic": CodeGenerationEngine, "enhanced": Enhanced...
    dry_run,        \* the engine's dry_run flag
    fs,             \* the working (basic) or project (enhanced) directory
    fs0,            \* fs when the engine was constructed
    exec_plan,      \* the build plan being executed
    framework,      \* enhanced: a template exists for the technology stack
    custom_files,   \* enhanced: a custom file is to be generated
    sorted_instructions, \* sorted(build_instructions, key=order)
    position,       \* the build instruction the loop is at
    post_position,  \* the post-build command the loop is at
    phase,          \* "ready", "build", "post", "done"
    result,         \* "none", or the success the run reported
    log,            \* what this run executed, in order
    procs,          \* the commands handed to subprocess.run so far
    fs_ops,         \* the number of writing file-system calls so far
    run,            \* 1: first execution of the plan, 2: second
    first_fs,       \* fs at the end of the first execution
    first_result,   \* result of the first execution
    processor,      \* "basic": DocumentProcessor, "enhanced": Enhanced...
    file_suffix,    \* file_path.suffix.lower()
    raw_data,       \* the bytes of the file
    detected,       \* the encoding chardet.detect reports for raw_data
    library,        \* what the format library does with the file
    content,        \* what content extraction returned or raised
    doc_chunks,     \* the chunks handed to _extract_dependencies
    dependencies,   \* the set of the list _extract_dependencies returned
    checked_file,   \* the plan file handed to validate_build_plan
    valid,          \* "none", or the boolean validate_build_plan returned
    caller,         \* which chunking method is called
    section,        \* the words of the section
    max_chunk_size, \* DocumentProcessor.max_chunk_size
    overlap_size,   \* EnhancedDocumentProcessor.overlap_size
    start,          \* _split_with_overlap: start
    sub_chunks,     \* the chunks made so far, each the sequence of its words
    iterations,     \* the parity of the number of iterations of the loop
    chunk_pc,       \* "ready", "loop" inside _split_with_overlap, "returned"
    providers,          \* the keys of AIProviderManager.providers
    preferred_provider, \* the argument of generate_with_fallback
    providers_to_try,   \* generate_with_fallback: providers_to_try
    provider_calls,     \* the generate_response calls made, with their outcome
    fallback_response,  \* what generate_with_fallback returned or raised
    build_plan_data,    \* what _generate_build_plan returned
    validation_results, \* what _validate_build_plan returned or raised
    enhanced_plan,      \* what synthesize_architecture_enhanced returned or raised
    classified,         \* the content given to _classify_content_type_enhanced
    content_type,       \* the tag it returned
    cache_state,        \* self.cache, the .cache files and cache_index.json
    max_size_bytes,     \* CacheManager.max_size_bytes
    now,                \* time.time()
    lock,               \* the thread that holds self.lock, or "free"
    thread_pc,          \* per thread: "idle", "acquire", "locked"
    thread_call,        \* per thread: the method called and its arguments
    thread_result,      \* per thread: what its last call returned
    calls,              \* the number of calls made
    set_values,         \* per key: the value of the last set that returned True
    added_structure,    \* the file structure _add_to_structure fills
    inserted,           \* the paths inserted so far
    add_result,         \* None, or what the last _add_to_structure raised
    format_response,    \* the response handed to validate_response_format
    prompt_type,        \* the prompt type handed to it
    format_valid        \* what it returned

compileVars == <<plan, instructions, cpc>>
synthVars == <<client, extracted, chunks, response, output_path, build_plan,
               plan_file, loaded_plan, spc>>
execInputs == <<engine, dry_run, fs0, exec_plan, framework, custom_files>>
execVars == <<execInputs, fs, sorted_instructions, position, post_position,
              phase, result, log, procs, fs_ops, run, first_fs, first_result>>
extractVars == <<processor, file_suffix, raw_data, detected, library, content>>
depVars == <<doc_chunks, dependencies>>
validateVars == <<checked_file, valid>>
chunkInputs == <<caller, section, max_chunk_size, overlap_size>>
chunkVars == <<chunkInputs, start, sub_chunks, iterations, chunk_pc>>
fallbackVars == <<providers, preferred_provider, providers_to_try,
                  provider_calls, fallback_response>>
enhancedVars == <<build_plan_data, validation_results, enhanced_plan>>
classifyVars == <<classified, content_type>>
cacheVars == <<cache_state, max_size_bytes, now, lock, thread_pc, thread_call,
               thread_result, calls, set_values>>
structVars == <<added_structure, inserted, add_result>>
formatVars == <<format_response, prompt_type, format_valid>>
finalVars == <<cacheVars, structVars, formatVars>>
lateVars == <<fallbackVars, enhancedVars, classifyVars, finalVars>>
otherVars == <<extractVars, depVars, validateVars, chunkVars, lateVars>>
vars == <<compileVars, synthVars, execVars, otherVars>>

NoValue == [py |-> "unset"]

CompileIdle == plan = NoValue /\ instructions = NoValue /\ cpc = "idle"
SynthIdle ==
    /\ client = FALSE /\ extracted = NoValue /\ chunks = <<>>
    /\ response = NoValue /\ output_path = FALSE /\ build_plan = NoValue
    /\ plan_file = NoValue /\ loaded_plan = NoValue /\ spc = "idle"

ExecIdle ==
    /\ engine = "none" /\ dry_run = FALSE /\ fs = NoValue /\ fs0 = NoValue
    /\ exec_plan = NoValue /\ framework = FALSE /\ custom_files = FALSE
    /\ sorted_instructions = <<>> /\ position = 0 /\ post_position = 0
    /\ phase = "idle" /\ result = "none" /\ log = <<>> /\ procs = <<>>
    /\ fs_ops = 0 /\ run = 0 /\ first_fs = NoValue /\ first_result = "none"

ExtractIdle ==
    /\ processor = "none" /\ file_suffix = "" /\ raw_data = <<>>
    /\ detected = NoValue /\ library = "none" /\ content = NoValue

DepIdle == doc_chunks = <<>> /\ dependencies = NoValue

ValidateIdle == checked_file = NoValue /\ valid = "none"

ChunkIdle ==
    /\ caller = "none" /\ section = <<>> /\ max_chunk_size = 0
    /\ overlap_size = 0 /\ start = 0 /\ sub_chunks = <<>> /\ iterations = 0
    /\ chunk_pc = "idle"

FallbackIdle ==
    /\ providers = {} /\ preferred_provider = NoValue /\ providers_to_try = <<>>
    /\ provider_calls = <<>> /\ fallback_response = NoValue

EnhancedIdle ==
    /\ build_plan_data = NoValue /\ validation_results = NoValue
    /\ enhanced_plan = NoValue

ClassifyIdle == classified = NoValue /\ content_type = "none"

CacheIdle ==
    /\ cache_state = NoValue /\ max_size_bytes = 0 /\ now = 0 /\ lock = "free"
    /\ thread_pc = <<>> /\ thread_call = <<>> /\ thread_result = <<>>
    /\ calls = 0 /\ set_values = <<>>

StructIdle ==
    added_structure = NoValue /\ inserted = <<>> /\ add_result = NoValue

FormatIdle ==
    /\ format_response = NoValue /\ prompt_type = "" /\ format_valid = NoValue

FinalIdle == CacheIdle /\ StructIdle /\ FormatIdle

LateIdle == FallbackIdle /\ EnhancedIdle /\ ClassifyIdle /\ FinalIdle

OtherIdle == ExtractIdle /\ DepIdle /\ ValidateIdle /\ ChunkIdle /\ LateIdle

(***************************************************************************)
(* The compiler on its own.                                                *)
(***************************************************************************)
CompileInit ==
    /\ \E s \in StructureValues, d \in DependencyValues, c \in SequenceValues :
            plan = AnalysisDict(s, d, c)
    /\ instructions = NoValue
    /\ cpc = "ready"
    /\ SynthIdle /\ ExecIdle /\ OtherIdle

CallCreateBuildInstructions ==
    /\ cpc = "ready"
    /\ instructions' = CreateBuildInstructions(plan)
    /\ cpc' = "done"
    /\ UNCHANGED <<plan, synthVars, execVars, otherVars>>

CompileNext == CallCreateBuildInstructions

SpecCompile == CompileInit /\ [][CompileNext]_vars

(***************************************************************************)
(* Synthesis, save and load.                                               *)
(***************************************************************************)
SynthInit ==
    /\ client \in BOOLEAN
    /\ extracted \in ExtractedData
    /\ chunks \in ChunkLists
    /\ response \in (IF client THEN Responses ELSE {NoValue})
    /\ output_path \in BOOLEAN
    /\ build_plan = NoValue
    /\ plan_file = NoValue
    /\ loaded_plan = NoValue
    /\ spc = "ready"
    /\ CompileIdle /\ ExecIdle /\ OtherIdle

\* synthesize_architecture(base_chunks, overlay_chunks, output_path)
CallSynthesizeArchitecture ==
    /\ spc = "ready"
    /\ LET made == SynthesizeArchitecture(client, extracted, response, chunks)
       IN  /\ build_plan' = made
           /\ spc' = IF IsRaise(made) THEN "raised" ELSE "returned"
           /\ plan_file' = IF ~IsRaise(made) /\ output_path
                           THEN SaveBuildPlan(made) ELSE plan_file
    /\ UNCHANGED <<client, extracted, chunks, response, output_path,
                   loaded_plan, compileVars, execVars, otherVars>>

\* CodeGenerationEngine._load_build_plan on the saved file
CallLoadBuildPlan ==
    /\ spc = "returned"
    /\ plan_file # NoValue
    /\ loaded_plan' = LoadBuildPlan(plan_file)
    /\ spc' = "loaded"
    /\ UNCHANGED <<client, extracted, chunks, response, output_path,
                   build_plan, plan_file, compileVars, execVars, otherVars>>

SynthNext == CallSynthesizeArchitecture \/ CallLoadBuildPlan

SpecSynth == SynthInit /\ [][SynthNext]_vars

(***************************************************************************)
(* Plan execution by CodeGenerationEngine and EnhancedCodeGeneration-      *)
(* Engine, one loop iteration per step; a finished plan may be executed    *)
(* once more against the same directory.                                   *)
(***************************************************************************)
ExecInit ==
    /\ engine \in {"basic", "enhanced"}
    /\ dry_run \in BOOLEAN
    /\ exec_plan \in ExecPlans
    /\ fs0 \in (IF engine = "basic" THEN InitialDirectories
                ELSE {NoDirectory, EmptyDirectory})
    /\ fs = fs0
    /\ framework \in (IF engine = "basic" THEN {FALSE} ELSE BOOLEAN)
    /\ custom_files \in (IF framework THEN BOOLEAN ELSE {FALSE})
    /\ sorted_instructions = <<>> /\ position = 0 /\ post_position = 0
    /\ phase = "ready" /\ result = "none" /\ log = <<>> /\ procs = <<>>
    /\ fs_ops = 0 /\ run = 1 /\ first_fs = NoValue /\ first_result = "none"
    /\ CompileIdle /\ SynthIdle /\ OtherIdle

Instructions == exec_plan.build_instructions
Posts == exec_plan.post_build_commands

\* the loops are entered at their first element, or skipped when empty
EnterLoops ==
    /\ sorted_instructions' = SortedByOrder(Instructions)
    /\ position' = 1
    /\ post_position' = 1
    /\ log' = <<>>
    /\ phase' = IF Len(Instructions) > 0 THEN "build"
                ELSE IF Len(Posts) > 0 THEN "post" ELSE "done"
    /\ result' = IF Len(Instructions) = 0 /\ Len(Posts) = 0
                 THEN "True" ELSE "none"

\* _execute_plan up to its first instruction
BeginExecutePlan ==
    /\ engine = "basic" /\ phase = "ready"
    /\ EnterLoops
    /\ UNCHANGED <<execInputs, fs, procs, fs_ops, run, first_fs, first_result,
                   compileVars, synthVars, otherVars>>

\* one iteration of the instruction loop of _execute_plan
ExecuteNextInstruction ==
    /\ engine = "basic" /\ phase = "build"
    /\ \E outcome \in Outcomes :
        LET instruction == sorted_instructions[position]
            step == ExecuteInstruction(dry_run, fs, instruction, outcome)
            after == AfterInstruction(step.ok, position,
                                      Len(sorted_instructions), Len(Posts))
        IN  /\ fs' = step.fs
            /\ procs' = procs \o step.started
            /\ fs_ops' = fs_ops + step.ops
            /\ log' = Append(log, [kind |-> "instruction",
                                   position |-> position,
                                   order |-> instruction.order.n,
                                   how |-> IF step.started = <<>> THEN "none"
                                           ELSE outcome,
                                   seen |-> {q \in MarkerFiles : Exists(fs, q)},
                                   started |-> step.started,
                                   ok |-> step.ok])
            /\ position' = position + 1
            /\ phase' = after.phase
            /\ result' = after.result
    /\ UNCHANGED <<execInputs, sorted_instructions, post_position, run,
                   first_fs, first_result, compileVars, synthVars, otherVars>>

\* one iteration of the post-build loop of _execute_plan
RunPostBuildCommand ==
    /\ engine = "basic" /\ phase = "post"
    /\ \E outcome \in Outcomes :
        LET step == RunCommand(dry_run, fs, Posts[post_position], outcome)
            after == AfterPostCommand(step.ok, post_position, Len(Posts))
        IN  /\ fs' = step.fs
            /\ phase' = after.phase
            /\ result' = after.result
            /\ procs' = procs \o step.started
            /\ log' = Append(log, [kind |-> "post",
                                   position |-> post_position,
                                   order |-> 0,
                                   started |-> step.started,
                                   ok |-> step.ok])
    /\ post_position' = post_position + 1
    /\ UNCHANGED <<execInputs, sorted_instructions, position, fs_ops, run,
                   first_fs, first_result, compileVars, synthVars, otherVars>>

\* execute_enhanced_build_plan up to the first build instruction
BeginEnhancedBuildPlan ==
    /\ engine = "enhanced" /\ phase = "ready"
    /\ \E generated \in BOOLEAN :
        LET step == BeginEnhanced(dry_run, fs, framework, custom_files, generated)
        IN  /\ fs' = step.fs
            /\ fs_ops' = fs_ops + step.ops
            /\ IF step.ok THEN EnterLoops
               ELSE /\ phase' = "done" /\ result' = "False" /\ log' = <<>>
                    /\ sorted_instructions' = <<>>
                    /\ position' = 1 /\ post_position' = 1
    /\ UNCHANGED <<execInputs, procs, run, first_fs, first_result,
                   compileVars, synthVars, otherVars>>

\* one iteration of the instruction loop of _execute_build_instructions
ExecuteNextSingleInstruction ==
    /\ engine = "enhanced" /\ phase = "build"
    /\ \E outcome \in Outcomes :
        LET instruction == sorted_instructions[position]
            step == ExecuteSingleInstruction(dry_run, fs, instruction, outcome)
            after == AfterSingleInstruction(step.ok, position,
                                            Len(sorted_instructions), Len(Posts))
        IN  /\ fs' = step.fs
            /\ procs' = procs \o step.started
            /\ fs_ops' = fs_ops + step.ops
            /\ log' = Append(log, [kind |-> "instruction",
                                   position |-> position,
                                   order |-> instruction.order.n,
                                   how |-> IF step.started = <<>> THEN "none"
                                           ELSE outcome,
                                   seen |-> {q \in MarkerFiles : Exists(fs, q)},
                                   started |-> step.started,
                                   ok |-> step.ok])
            /\ position' = position + 1
            /\ phase' = after.phase
            /\ result' = after.result
    /\ UNCHANGED <<execInputs, sorted_instructions, post_position, run,
                   first_fs, first_result, compileVars, synthVars, otherVars>>

\* one iteration of the post-build loop of _execute_build_instructions;
\* after the last one the project is validated and success is set
RunEnhancedPostBuildCommand ==
    /\ engine = "enhanced" /\ phase = "post"
    /\ \E outcome \in Outcomes :
        LET step == EnhancedRunCommand(dry_run, fs, Posts[post_position], outcome)
        IN  /\ fs' = step.fs
            /\ procs' = procs \o step.started
            /\ log' = Append(log, [kind |-> "post",
                                   position |-> post_position,
                                   order |-> 0,
                                   started |-> step.started,
                                   ok |-> step.ok])
    /\ post_position' = post_position + 1
    /\ phase' = IF post_position < Len(Posts) THEN "post" ELSE "done"
    /\ result' = IF post_position < Len(Posts) THEN "none" ELSE "True"
    /\ UNCHANGED <<execInputs, sorted_instructions, position, fs_ops, run,
                   first_fs, first_result, compileVars, synthVars, otherVars>>

\* execute_build_plan_object is called a second time with the same plan
ExecuteAgain ==
    /\ engine = "basic" /\ phase = "done" /\ run = 1 /\ ~dry_run
    /\ run' = 2
    /\ first_fs' = fs
    /\ first_result' = result
    /\ phase' = "ready"
    /\ result' = "none"
    /\ log' = <<>>
    /\ UNCHANGED <<execInputs, fs, sorted_instructions, position,
                   post_position, procs, fs_ops, compileVars, synthVars, otherVars>>

ExecNext ==
    \/ BeginExecutePlan
    \/ ExecuteNextInstruction
    \/ RunPostBuildCommand
    \/ BeginEnhancedBuildPlan
    \/ ExecuteNextSingleInstruction
    \/ RunEnhancedPostBuildCommand
    \/ ExecuteAgain

SpecExec == ExecInit /\ [][ExecNext]_vars

(***************************************************************************)
(* Content extraction of one existing file.                                *)
(***************************************************************************)
ExtractInit ==
    /\ processor \in {"basic", "enhanced"}
    /\ file_suffix \in Suffixes
    /\ raw_data \in ByteStrings
    /\ detected \in DetectedEncodings
    /\ library \in LibraryOutcomes
    /\ content = NoValue
    /\ CompileIdle /\ SynthIdle /\ ExecIdle /\ DepIdle /\ ValidateIdle
    /\ ChunkIdle /\ LateIdle

ExtractFrame ==
    UNCHANGED <<processor, file_suffix, raw_data, detected, library,
                compileVars, synthVars, execVars, depVars, validateVars,
                chunkVars, lateVars>>

\* DocumentProcessor.process_file up to the extracted content
CallProcessFile ==
    /\ processor = "basic" /\ content = NoValue
    /\ content' = ExtractContentWithFallback(file_suffix, raw_data, detected,
                                             library)
    /\ ExtractFrame

\* EnhancedDocumentProcessor.process_file_enhanced up to the content
CallProcessFileEnhanced ==
    /\ processor = "enhanced" /\ content = NoValue
    /\ content' = ExtractContentWithMetadata(file_suffix, raw_data, detected,
                                             library)
    /\ ExtractFrame

ExtractNext == CallProcessFile \/ CallProcessFileEnhanced

SpecExtract == ExtractInit /\ [][ExtractNext]_vars

(***************************************************************************)
(* Dependency extraction from a chunk sequence.                            *)
(***************************************************************************)
DepInit ==
    /\ doc_chunks \in ChunkSequences
    /\ dependencies = NoValue
    /\ CompileIdle /\ SynthIdle /\ ExecIdle /\ ExtractIdle /\ ValidateIdle
    /\ ChunkIdle /\ LateIdle

CallExtractDependencies ==
    /\ dependencies = NoValue
    /\ dependencies' = ExtractDependencies(doc_chunks)
    /\ UNCHANGED <<doc_chunks, compileVars, synthVars, execVars, extractVars,
                   validateVars, chunkVars, lateVars>>

DepNext == CallExtractDependencies

SpecDep == DepInit /\ [][DepNext]_vars

(***************************************************************************)
(* Validation of a plan file.                                              *)
(***************************************************************************)
ValidateInit ==
    /\ checked_file \in PlanFiles
    /\ valid = "none"
    /\ CompileIdle /\ SynthIdle /\ ExecIdle /\ ExtractIdle /\ DepIdle
    /\ ChunkIdle /\ LateIdle

CallValidateBuildPlan ==
    /\ valid = "none"
    /\ valid' = IF ValidateBuildPlan(checked_file) THEN "True" ELSE "False"
    /\ UNCHANGED <<checked_file, compileVars, synthVars, execVars, extractVars,
                   depVars, chunkVars, lateVars>>

ValidateNext == CallValidateBuildPlan

SpecValidate == ValidateInit /\ [][ValidateNext]_vars

(***************************************************************************)
(* Chunking of one section: _split_with_overlap called on it, or the       *)
(* section chunked by _chunk_content or _chunk_content_enhanced.  The loop *)
(* of _split_with_overlap takes one step per iteration.                    *)
(***************************************************************************)
ChunkInit ==
    /\ caller \in {"split_with_overlap", "chunk_content",
                   "chunk_content_enhanced"}
    /\ \/ \E f \in Sections : section = SectionOf(f)
       \/ caller = "split_with_overlap" /\ section = <<>>
    /\ max_chunk_size \in 0..MaxChunkSize
    /\ overlap_size \in (IF caller = "chunk_content" THEN {0}
                         ELSE 0..MaxOverlapSize)
    /\ start = 0 /\ sub_chunks = <<>> /\ iterations = 0 /\ chunk_pc = "ready"
    /\ CompileIdle /\ SynthIdle /\ ExecIdle /\ ExtractIdle /\ DepIdle
    /\ ValidateIdle /\ LateIdle

ChunkFrame ==
    UNCHANGED <<chunkInputs, compileVars, synthVars, execVars, extractVars,
                depVars, validateVars, lateVars>>

\* _split_with_overlap up to its loop
CallSplitWithOverlap ==
    /\ caller = "split_with_overlap" /\ chunk_pc = "ready"
    /\ IF section = <<>>
       THEN sub_chunks' = <<section>> /\ chunk_pc' = "returned"
       ELSE sub_chunks' = <<>> /\ chunk_pc' = "loop"
    /\ start' = 0 /\ iterations' = 0
    /\ ChunkFrame

\* _chunk_content_enhanced up to the loop of _split_with_overlap
CallChunkContentEnhanced ==
    /\ caller = "chunk_content_enhanced" /\ chunk_pc = "ready"
    /\ IF CountTokens(section) > max_chunk_size
       THEN sub_chunks' = <<>> /\ chunk_pc' = "loop"
       ELSE sub_chunks' = <<section>> /\ chunk_pc' = "returned"
    /\ start' = 0 /\ iterations' = 0
    /\ ChunkFrame

\* one iteration of the while loop of _split_with_overlap
SplitIteration ==
    /\ chunk_pc = "loop"
    /\ LET max_words == WordsFor(max_chunk_size)
           overlap_words == WordsFor(overlap_size)
           end == Min(start + max_words, Len(section))
       IN  /\ sub_chunks' =
                 IF Len(sub_chunks) < MaxIterations
                 THEN Append(sub_chunks, Slice(section, start, end))
                 ELSE sub_chunks
           /\ IF end >= Len(section)
              THEN chunk_pc' = "returned" /\ start' = start
              ELSE /\ chunk_pc' = "loop"
                   /\ start' = Max(NextStart(end, overlap_words),
                                   StartFloor(section, max_words))
    /\ iterations' = 1 - iterations
    /\ ChunkFrame

\* DocumentProcessor._chunk_content
CallChunkContent ==
    /\ caller = "chunk_content" /\ chunk_pc = "ready"
    /\ sub_chunks' = ChunkContent(section, max_chunk_size)
    /\ chunk_pc' = "returned"
    /\ start' = 0 /\ iterations' = 0
    /\ ChunkFrame

ChunkNext ==
    \/ CallSplitWithOverlap
    \/ CallChunkContentEnhanced
    \/ SplitIteration
    \/ CallChunkContent

SpecChunk == ChunkInit /\ [][ChunkNext]_vars

\* a call in progress goes on
LiveChunk == SpecChunk /\ WF_vars(ChunkNext)

(***************************************************************************)
(* AIProviderManager.generate_with_fallback; the loop over                 *)
(* providers_to_try takes one step per provider.                           *)
(***************************************************************************)
FallbackInit ==
    /\ providers \in ConfiguredProviders
    /\ preferred_provider \in {None} \cup {Str(p) : p \in AIProviders}
    /\ providers_to_try = <<>> /\ provider_calls = <<>>
    /\ fallback_response = NoValue
    /\ CompileIdle /\ SynthIdle /\ ExecIdle /\ ExtractIdle /\ DepIdle
    /\ ValidateIdle /\ ChunkIdle /\ EnhancedIdle /\ ClassifyIdle /\ FinalIdle

FallbackFrame ==
    UNCHANGED <<providers, preferred_provider, compileVars, synthVars,
                execVars, extractVars, depVars, validateVars, chunkVars,
                enhancedVars, classifyVars, finalVars>>

\* generate_with_fallback up to its loop over providers_to_try
CallGenerateWithFallback ==
    /\ providers # {} /\ providers_to_try = <<>>
    /\ providers_to_try' = ProvidersToTry(providers, preferred_provider)
    /\ UNCHANGED <<provider_calls, fallback_response>>
    /\ FallbackFrame

\* one iteration of the loop: generate_response of the next provider
\* returns (ok) or raises; after the last failure the method raises
TryProvider ==
    /\ providers_to_try # <<>> /\ fallback_response = NoValue
    /\ Len(provider_calls) < Len(providers_to_try)
    /\ \E ok \in BOOLEAN :
          LET provider_type == providers_to_try[Len(provider_calls) + 1]
          IN  /\ provider_calls' =
                    Append(provider_calls,
                           [provider |-> provider_type, ok |-> ok])
              /\ fallback_response' =
                    IF ok THEN AIResponse(provider_type)
                    ELSE IF Len(provider_calls) + 1 = Len(providers_to_try)
                    THEN Raise("Exception")
                    ELSE NoValue
    /\ UNCHANGED providers_to_try
    /\ FallbackFrame

FallbackNext == CallGenerateWithFallback \/ TryProvider

SpecFallback == FallbackInit /\ [][FallbackNext]_vars

(***************************************************************************)
(* synthesize_architecture_enhanced from the parsed generation result on.  *)
(***************************************************************************)
EnhancedInit ==
    /\ build_plan_data \in GenerationResults
    /\ validation_results = NoValue /\ enhanced_plan = NoValue
    /\ CompileIdle /\ SynthIdle /\ ExecIdle /\ ExtractIdle /\ DepIdle
    /\ ValidateIdle /\ ChunkIdle /\ FallbackIdle /\ ClassifyIdle /\ FinalIdle

\* synthesize_architecture_enhanced with no output_path, after
\* _generate_build_plan returned build_plan_data
SynthesizeArchitectureEnhanced ==
    /\ build_plan_data # NoValue /\ enhanced_plan = NoValue
    /\ LET ai_analysis ==
               IF build_plan_data = FallbackBuildPlan THEN FallbackAnalysis
               ELSE Dict(<<Item("_ai_metadata", ResponseMetadata)>>)
           made == ValidateAndCreate(build_plan_data, ai_analysis)
       IN  /\ validation_results' = made.results
           /\ enhanced_plan' = made.plan
    /\ UNCHANGED <<build_plan_data, compileVars, synthVars, execVars,
                   extractVars, depVars, validateVars, chunkVars,
                   fallbackVars, classifyVars, finalVars>>

EnhancedNext == SynthesizeArchitectureEnhanced

SpecEnhanced == EnhancedInit /\ [][EnhancedNext]_vars

(***************************************************************************)
(* Classification of one content.                                          *)
(***************************************************************************)
ClassifyInit ==
    /\ \E lines \in Contents : classified = [py |-> "str", lines |-> lines]
    /\ content_type = "none"
    /\ CompileIdle /\ SynthIdle /\ ExecIdle /\ ExtractIdle /\ DepIdle
    /\ ValidateIdle /\ ChunkIdle /\ FallbackIdle /\ EnhancedIdle /\ FinalIdle

CallClassifyContentTypeEnhanced ==
    /\ classified # NoValue /\ content_type = "none"
    /\ content_type' = ClassifyContentTypeEnhanced(classified.lines)
    /\ UNCHANGED <<classified, compileVars, synthVars, execVars, extractVars,
                   depVars, validateVars, chunkVars, fallbackVars,
                   enhancedVars, finalVars>>

ClassifyNext == CallClassifyContentTypeEnhanced

SpecClassify == ClassifyInit /\ [][ClassifyNext]_vars

(***************************************************************************)
(* A CacheManager on a fresh directory.  A call waits for self.lock, then  *)
(* runs its body and leaves the with block.  SpecCache has one caller and  *)
(* every call; SpecCacheThreads has several threads.                       *)
(***************************************************************************)
NoCall == [op |-> "none"]

CacheInitFor(threads) ==
    /\ cache_state = CacheState(<<>>, <<>>, <<>>)
    /\ max_size_bytes = MaxSizeUnits
    /\ now = 0 /\ lock = "free" /\ calls = 0
    /\ thread_pc = [t \in threads |-> "idle"]
    /\ thread_call = [t \in threads |-> NoCall]
    /\ thread_result = [t \in threads |->
                            [op |-> "none", key |-> "", value |-> NoValue,
                             evicted |-> <<>>]]
    /\ set_values = [k \in CacheKeys |-> NoValue]
    /\ CompileIdle /\ SynthIdle /\ ExecIdle /\ ExtractIdle /\ DepIdle
    /\ ValidateIdle /\ ChunkIdle /\ FallbackIdle /\ EnhancedIdle
    /\ ClassifyIdle /\ StructIdle /\ FormatIdle

CacheInit == CacheInitFor({"main"})

CacheThreadsInit == CacheInitFor(Threads)

CacheFrame ==
    UNCHANGED <<max_size_bytes, compileVars, synthVars, execVars, extractVars,
                depVars, validateVars, chunkVars, fallbackVars, enhancedVars,
                classifyVars, structVars, formatVars>>

\* a thread calls a method and reaches "with self.lock"
CallCache(t) ==
    /\ thread_pc[t] = "idle" /\ calls < MaxThreadCalls
    /\ \E call \in ThreadCalls :
          thread_call' = [thread_call EXCEPT ![t] = call]
    /\ thread_pc' = [thread_pc EXCEPT ![t] = "acquire"]
    /\ calls' = calls + 1
    /\ UNCHANGED <<cache_state, now, lock, thread_result, set_values>>
    /\ CacheFrame

\* the thread enters the with block
AcquireLock(t) ==
    /\ thread_pc[t] = "acquire" /\ CanAcquire(lock)
    /\ lock' = t
    /\ thread_pc' = [thread_pc EXCEPT ![t] = "locked"]
    /\ UNCHANGED <<cache_state, now, thread_call, thread_result, calls,
                   set_values>>
    /\ CacheFrame

\* the body of the method thread t called, with the outcome of the write
\* in _save_value
RunBody(t, call, written) ==
    /\ call.op # "set" => written = "written"
    /\ \E outcome \in
              {RunCall(call, cache_state, now, written, max_size_bytes)} :
          /\ cache_state' = outcome.st
          /\ thread_result' =
                [thread_result EXCEPT
                    ![t] = [op |-> call.op,
                            key |-> IF "key" \in DOMAIN call THEN call.key
                                    ELSE "",
                            value |-> outcome.value,
                            evicted |-> outcome.evicted]]
          /\ set_values' =
                IF call.op = "set" /\ outcome.value = Bool(TRUE)
                THEN [set_values EXCEPT ![call.key] = call.value]
                ELSE set_values

\* the thread runs the body of its method and leaves the with block
RunAndRelease(t) ==
    /\ thread_pc[t] = "locked"
    /\ \E written \in WriteOutcomes : RunBody(t, thread_call[t], written)
    /\ lock' = "free"
    /\ thread_pc' = [thread_pc EXCEPT ![t] = "idle"]
    /\ thread_call' = [thread_call EXCEPT ![t] = NoCall]
    /\ UNCHANGED <<now, calls>>
    /\ CacheFrame

\* a call of the only caller: the lock is free, so the call takes it, runs
\* its body and releases it
CallAlone(t) ==
    /\ thread_pc[t] = "idle" /\ calls < MaxCalls /\ CanAcquire(lock)
    /\ \E call \in CacheCalls, written \in WriteOutcomes :
          RunBody(t, call, written)
    /\ calls' = calls + 1
    /\ UNCHANGED <<now, lock, thread_pc, thread_call>>
    /\ CacheFrame

\* an hour passes
Tick ==
    /\ cache_state # NoValue /\ now < MaxTime
    /\ now' = now + 1
    /\ UNCHANGED <<cache_state, lock, thread_pc, thread_call, thread_result,
                   calls, set_values>>
    /\ CacheFrame

CacheNext == CallAlone("main") \/ Tick

SpecCache == CacheInit /\ [][CacheNext]_vars

CacheThreadsNext ==
    \/ \E t \in Threads : CallCache(t)
    \/ \E t \in Threads : AcquireLock(t)
    \/ \E t \in Threads : RunAndRelease(t)
    \/ Tick

SpecCacheThreads == CacheThreadsInit /\ [][CacheThreadsNext]_vars

(***************************************************************************)
(* _extract_file_structure: paths are added to a structure that starts     *)
(* empty; an exception ends the extraction.                                *)
(***************************************************************************)
OthersIdle ==
    /\ CompileIdle /\ SynthIdle /\ ExecIdle /\ ExtractIdle /\ DepIdle
    /\ ValidateIdle /\ ChunkIdle /\ FallbackIdle /\ EnhancedIdle
    /\ ClassifyIdle

othersVars ==
    <<compileVars, synthVars, execVars, extractVars, depVars, validateVars,
      chunkVars, fallbackVars, enhancedVars, classifyVars>>

StructInit ==
    /\ added_structure = Dict(<<>>) /\ inserted = <<>> /\ add_result = None
    /\ OthersIdle /\ CacheIdle /\ FormatIdle

CallAddToStructure ==
    /\ Len(inserted) < MaxInserts /\ ~IsRaise(add_result)
    /\ \E path \in StructurePaths, item_type \in ItemTypes :
          LET added == AddToStructure(added_structure, path, item_type)
          IN  IF IsRaise(added)
              THEN /\ add_result' = added
                   /\ UNCHANGED <<added_structure, inserted>>
              ELSE /\ added_structure' = added
                   /\ inserted' = Append(inserted, path)
                   /\ add_result' = None
    /\ UNCHANGED <<othersVars, cacheVars, formatVars>>

StructNext == CallAddToStructure

SpecStructure == StructInit /\ [][StructNext]_vars

(***************************************************************************)
(* One call of validate_response_format.                                   *)
(***************************************************************************)
FormatInit ==
    /\ format_response \in FormatResponses
    /\ prompt_type \in PromptTypes
    /\ format_valid = NoValue
    /\ OthersIdle /\ CacheIdle /\ StructIdle

CallValidateResponseFormat ==
    /\ format_valid = NoValue
    /\ format_valid' = ValidateResponseFormat(format_response, prompt_type)
    /\ UNCHANGED <<format_response, prompt_type, othersVars, cacheVars,
                   structVars>>

FormatNext == CallValidateResponseFormat

SpecFormat == FormatInit /\ [][FormatNext]_vars

(***************************************************************************)
(* A plan is compiled by _create_build_instructions and the instructions   *)
(* are executed by the basic engine in a working directory.                *)
(***************************************************************************)
MarkerNames == {"package.json", "requirements.txt", "pyproject.toml"}

\* what a node of the directory tree is bound to
TreeLeaves == {Str("file"), Str("directory"), Dict(<<>>)}

\* the directory trees compiled: the node a with or without a node b in
\* it, and a node that has the name of a marker file
BuildTrees ==
    LET a == {<<>>} \cup {<<Item("a", v)>> : v \in TreeLeaves}
                   \cup {<<Item("a", Dict(<<Item("b", v)>>))>> :
                            v \in TreeLeaves}
        marker == {<<>>} \cup {<<Item(m, v)>> :
                                  m \in MarkerNames,
                                  v \in {Str("file"), Dict(<<>>)}}
    IN  {Dict(x \o y) : x \in a, y \in marker}

BuildInit ==
    /\ \E s \in BuildTrees, d \in StrList(DepNames, MaxDeps),
          c \in StrList(CmdNames, MaxCmds) :
            plan = AnalysisDict(s, d, c)
    /\ instructions = NoValue /\ cpc = "ready"
    /\ engine = "basic"
    /\ dry_run = FALSE
    /\ fs0 \in InitialDirectories
    /\ fs = fs0
    /\ exec_plan = NoValue /\ framework = FALSE /\ custom_files = FALSE
    /\ sorted_instructions = <<>> /\ position = 0 /\ post_position = 0
    /\ phase = "idle" /\ result = "none" /\ log = <<>> /\ procs = <<>>
    /\ fs_ops = 0 /\ run = 1 /\ first_fs = NoValue /\ first_result = "none"
    /\ SynthIdle /\ OtherIdle

\* the plan is compiled and handed to the engine as a UnifiedBuildPlan
CompileForExecution ==
    /\ cpc = "ready" /\ phase = "idle"
    /\ instructions' = CreateBuildInstructions(plan)
    /\ cpc' = "done"
    /\ \E post \in {p \in PostLists : Len(p) <= 1} :
          exec_plan' = [build_instructions |-> instructions'.elems,
                        post_build_commands |-> post]
    /\ phase' = "ready"
    /\ UNCHANGED <<plan, engine, dry_run, fs0, framework, custom_files, fs,
                   sorted_instructions, position, post_position, result, log,
                   procs, fs_ops, run, first_fs, first_result, synthVars,
                   otherVars>>

BuildNext ==
    \/ CompileForExecution
    \/ BeginExecutePlan
    \/ ExecuteNextInstruction
    \/ RunPostBuildCommand

SpecBuild == BuildInit /\ [][BuildNext]_vars

(***************************************************************************)
(* Properties of the compiler.                                             *)
(***************************************************************************)
Compiled == cpc = "done" /\ instructions.py = "list"
Instr == instructions.elems
TypeOf(i) == Instr[i].type.s
DirectoryTargets ==
    {Instr[i].target.s : i \in {j \in 1..Len(Instr) : TypeOf(j) = "directory"}}

\* C1: the instructions returned by _create_build_instructions carry the
\* order values 0, 1, ..., n-1 in list order, every directory instruction
\* has a smaller order than every dependency and command instruction, and
\* every dependency instruction a smaller order than every command
\* instruction.
C1_PhaseOrdering ==
    Compiled =>
        /\ \A i \in 1..Len(Instr) : Instr[i].order = PyInt(i - 1)
        /\ \A i, j \in 1..Len(Instr) :
              /\ (TypeOf(i) = "directory"
                    /\ TypeOf(j) \in {"dependency", "command"})
                   => Instr[i].order.n < Instr[j].order.n
              /\ (TypeOf(i) = "dependency" /\ TypeOf(j) = "command")
                   => Instr[i].order.n < Instr[j].order.n

C1_Witness ==
    /\ Compiled
    /\ \E i, j, k \in 1..Len(Instr) :
          /\ TypeOf(i) = "directory"
          /\ TypeOf(j) = "dependency"
          /\ TypeOf(k) = "command"

RECURSIVE DirectoryPaths(_, _)
\* the paths of the tree that name a directory: the dict nodes and the
\* leaves marked "directory"
DirectoryPaths(structure, prefix) ==
    UNION {LET path == CurrentPath(prefix, structure.items[i].key)
               value == structure.items[i].val
           IN  IF value.py = "dict"
               THEN {path} \cup DirectoryPaths(value, path)
               ELSE IF value = Str("directory") THEN {path} ELSE {}
           : i \in 1..Len(structure.items)}

\* C9: the compiler emits exactly one directory instruction for each
\* directory path of the tree, inner nodes and leaves marked "directory"
\* alike, and none for file leaves; the scenario tree compiles to the
\* directory instructions src and src/app in that order.
C9_DirectoryPerPath ==
    Compiled =>
        LET structure == Get(plan, "directory_structure", Dict(<<>>))
        IN  /\ DirectoryTargets = DirectoryPaths(structure, "")
            /\ Cardinality(DirectoryTargets)
                  = Cardinality({j \in 1..Len(Instr) : TypeOf(j) = "directory"})
            /\ structure = ScenarioTree =>
                  /\ Len(Instr) >= 2
                  /\ Instr[1].target = Str("src")
                  /\ Instr[2].target = Str("src/app")

PathStrings ==
    {Str(k).s : k \in Keys}
    \cup {k1 \o "/" \o k2 : k1, k2 \in Keys}
    \cup {k1 \o "/" \o k2 \o "/" \o k3 : k1, k2, k3 \in Keys}
    \cup {k1 \o "/" \o k2 \o "/" \o k3 \o "/" \o k4 : k1, k2, k3, k4 \in Keys}

\* the parent path p of a path p/c, "" for a path of one component
ParentOf ==
    [t \in PathStrings |->
        IF \E p \in PathStrings, k \in Keys : t = p \o "/" \o k
        THEN CHOOSE p \in PathStrings : \E k \in Keys : t = p \o "/" \o k
        ELSE ""]

\* C10: a directory instruction for a path p/c is preceded by a directory
\* instruction for its parent path p.
C10_ParentBeforeChild ==
    Compiled =>
        \A i \in 1..Len(Instr) :
            (TypeOf(i) = "directory" /\ ParentOf[Instr[i].target.s] # "") =>
                    \E j \in 1..(i - 1) :
                        /\ TypeOf(j) = "directory"
                        /\ Instr[j].target.s = ParentOf[Instr[i].target.s]
                        /\ Instr[j].order.n < Instr[i].order.n

C10_Witness ==
    /\ Compiled
    /\ \E i \in 1..Len(Instr) :
          TypeOf(i) = "directory" /\ Instr[i].target.s = "src/app/package.json"

(***************************************************************************)
(* Properties of synthesis, save and load.                                 *)
(***************************************************************************)
Synthesized == spc \in {"returned", "raised", "loaded"}
NonJsonResponse ==
    client /\ response = [kind |-> "content", content |-> NonJsonText]

\* C4: when the generation call returns text that is not valid JSON,
\* synthesize_architecture returns the plan it returns for the same chunks
\* when no generation client is configured.
C4_NonJsonEqualsRuleBased ==
    (Synthesized /\ NonJsonResponse) =>
        build_plan = SynthesizeArchitecture(FALSE, extracted, NoValue, chunks)

C4_Witness ==
    /\ spc = "returned" /\ NonJsonResponse
    /\ build_plan.py = "UnifiedBuildPlan"
    /\ Len(build_plan.build_instructions.elems) >= 2

\* C5: for every outcome of the generation call, synthesize_architecture
\* returns a UnifiedBuildPlan instead of raising.
C5_SynthesisNeverRaises ==
    Synthesized => build_plan.py = "UnifiedBuildPlan"

\* C7: a plan produced by synthesis and saved by _save_build_plan is loaded
\* by _load_build_plan as a plan equal to the original in every field.
C7_RoundTrip == spc = "loaded" => loaded_plan = build_plan

C7_Witness ==
    /\ spc = "loaded"
    /\ loaded_plan.py = "UnifiedBuildPlan"
    /\ Len(loaded_plan.build_instructions.elems) >= 3
    /\ loaded_plan.directory_structure = ScenarioTree
    /\ client

(***************************************************************************)
(* Properties of plan execution.                                           *)
(***************************************************************************)
IsInstruction(i) == log[i].kind = "instruction"
TypesOfPlan == {Instructions[i].type.s : i \in 1..Len(Instructions)}

\* C2: _execute_plan runs the build instructions one at a time in ascending
\* order; once an instruction fails the run returns False, and no later
\* build instruction and no post-build command is executed.
C2_HaltOnFailure ==
    engine = "basic" =>
        \A i \in 1..Len(log) :
            /\ IsInstruction(i) =>
                  /\ log[i].position = i
                  /\ i > 1 => /\ IsInstruction(i - 1)
                              /\ log[i - 1].order <= log[i].order
                  /\ ~log[i].ok =>
                        i = Len(log) /\ phase = "done" /\ result = "False"
            /\ ~IsInstruction(i) =>
                  \A j \in 1..Len(sorted_instructions) :
                      IsInstruction(j) /\ log[j].ok

C2_Witness ==
    /\ engine = "basic" /\ phase = "done" /\ result = "False"
    /\ Len(log) = 1 /\ log[1].how = "timeout"
    /\ Len(sorted_instructions) = 2 /\ Len(Posts) = 1

C6_EnhancedHaltOnFailure ==
    engine = "enhanced" =>
        \A i \in 1..Len(log) :
            (IsInstruction(i) /\ ~log[i].ok) =>
                i = Len(log) /\ phase = "done" /\ result = "False"

DirectoryFilePlan ==
    /\ TypesOfPlan \subseteq {"directory", "file"}
    /\ Posts = <<>>

\* C8: when the first non-dry-run execution of a plan of directory and
\* file instructions succeeds, the second execution against the same
\* working directory succeeds too and leaves the directories and the
\* files' contents as the first left them.
C8_SecondRunIdempotent ==
    (engine = "basic" /\ ~dry_run /\ run = 2 /\ first_result = "True"
        /\ DirectoryFilePlan) =>
        /\ \A i \in 1..Len(log) : log[i].ok
        /\ phase = "done" => (result = "True" /\ fs = first_fs)

C8_Witness ==
    /\ engine = "basic" /\ ~dry_run /\ run = 2 /\ first_result = "True"
    /\ DirectoryFilePlan /\ TypesOfPlan = {"directory", "file"}
    /\ phase = "done" /\ Len(log) = 2 /\ fs # fs0

\* C13: a dependency instruction of CodeGenerationEngine succeeds without
\* starting a subprocess when the working directory holds no marker file;
\* it runs "npm install <target>" when package.json is there, and
\* otherwise "pip install <target>" when requirements.txt or pyproject.toml
\* is there.
C13_DependencyMarkers ==
    engine = "basic" =>
        \A i \in 1..Len(log) :
            (IsInstruction(i)
                /\ sorted_instructions[i].type = Str("dependency")) =>
                LET target == sorted_instructions[i].target.s
                    manager == IF <<"package.json">> \in log[i].seen
                               THEN "npm" ELSE "pip"
                IN  IF log[i].seen = {}
                    THEN log[i].ok /\ log[i].started = <<>>
                    ELSE ~dry_run =>
                           log[i].started = <<manager \o " install " \o target>>

C13_Witness ==
    /\ engine = "basic" /\ ~dry_run /\ phase = "done"
    /\ \E i \in 1..Len(log) :
          /\ IsInstruction(i)
          /\ sorted_instructions[i].type = Str("dependency")
          /\ log[i].seen = {<<"pyproject.toml">>}
          /\ log[i].started = <<"pip install react">>

InstructionEntries == {i \in 1..Len(log) : IsInstruction(i)}
PostEntries == {i \in 1..Len(log) : ~IsInstruction(i)}
EveryInstructionSucceeded ==
    /\ Cardinality(InstructionEntries) = Len(sorted_instructions)
    /\ \A i \in InstructionEntries : log[i].ok

\* C14: once every build instruction has succeeded, CodeGenerationEngine
\* runs each post-build command exactly once, in list order, after the
\* last build instruction; a failing post-build command does not keep the
\* remaining ones from running, and the overall result stays True.
C14_PostBuildCommands ==
    engine = "basic" =>
        /\ \A i \in PostEntries :
              /\ EveryInstructionSucceeded
              /\ log[i].position = i - Len(sorted_instructions)
              /\ ~dry_run => log[i].started = <<Posts[log[i].position]>>
        /\ (phase = "done" /\ EveryInstructionSucceeded) =>
              /\ result = "True"
              /\ Cardinality(PostEntries) = Len(Posts)

C14_Witness ==
    /\ engine = "basic" /\ ~dry_run /\ phase = "done" /\ result = "True"
    /\ Len(sorted_instructions) = 1 /\ Len(log) = 3
    /\ ~log[2].ok /\ log[3].ok
    /\ procs = <<"npm run build", "npm test", "npm run lint 1">>

(***************************************************************************)
(* Properties of content extraction.                                       *)
(***************************************************************************)
\* C11: for every existing file, whatever its suffix, its bytes and the
\* encoding the detector reports, content extraction by either processor
\* returns a string and never raises.
C11_ExtractionNeverRaises ==
    content # NoValue => content.py = "str"

(***************************************************************************)
(* Properties of dependency extraction.                                    *)
(***************************************************************************)
Keywords == {<<"npm", "install">>, <<"yarn", "add">>, <<"pip", "install">>}

\* the tokens of a line that stand after a keyword and do not start with '-'
TokensAfterKeyword(line) ==
    {line[j] : j \in {k \in 1..Len(line) :
        /\ line[k] \notin DashTokens
        /\ \E i \in 1..(k - 2) : <<line[i], line[i + 1]>> \in Keywords}}

FollowingTokens(cs) ==
    UNION {UNION {TokensAfterKeyword(cs[c].lines[l]) :
                     l \in 1..Len(cs[c].lines)} :
              c \in {k \in 1..Len(cs) : cs[k].chunk_type = "command"}}

\* C12: _extract_dependencies returns exactly the tokens that follow an
\* "npm install", "yarn add" or "pip install" keyword on a line of a
\* command chunk and do not start with '-', wherever the keyword stands
\* in the line, and nothing from chunks of other types.
C12_TokensAfterKeyword ==
    dependencies # NoValue =>
        dependencies = ListOfSet(FollowingTokens(doc_chunks))

(***************************************************************************)
(* Properties of plan validation.                                          *)
(***************************************************************************)
CannotBeLoaded ==
    \/ checked_file.js \in {"missing", "invalid"}
    \/ IsRaise(LoadBuildPlan(checked_file))

LoadedPlan == LoadBuildPlan(checked_file)

DuplicateOrders ==
    LET insts == LoadedPlan.build_instructions.elems
    IN  \E i, j \in 1..Len(insts) : i # j /\ insts[i].order = insts[j].order

\* C15: validate_build_plan returns False when the plan file cannot be
\* loaded, when project_name is empty or when build_instructions is empty,
\* and True otherwise; duplicate order values never make it return False.
C15_ValidateBuildPlan ==
    valid # "none" =>
        (valid = "False" <=>
            \/ CannotBeLoaded
            \/ LoadedPlan.project_name = Str("")
            \/ LoadedPlan.build_instructions = List(<<>>))

C15_Witness ==
    /\ valid = "True" /\ ~CannotBeLoaded /\ DuplicateOrders

(***************************************************************************)
(* Properties of chunking.                                                 *)
(***************************************************************************)
OverlapWords == WordsFor(overlap_size)

\* each sub-chunk after the first starts with the last OverlapWords words
\* of the one before it
SharesOverlap ==
    \A k \in 2..Len(sub_chunks) :
        /\ Len(sub_chunks[k]) >= OverlapWords
        /\ Len(sub_chunks[k - 1]) >= OverlapWords
        /\ SubSeq(sub_chunks[k], 1, OverlapWords)
             = SubSeq(sub_chunks[k - 1],
                      Len(sub_chunks[k - 1]) - OverlapWords + 1,
                      Len(sub_chunks[k - 1]))

RECURSIVE WithoutOverlaps(_)
\* the sub-chunks from the k-th on without their shared prefixes, joined
WithoutOverlaps(k) ==
    IF k > Len(sub_chunks) THEN <<>>
    ELSE SubSeq(sub_chunks[k], (IF k = 1 THEN 0 ELSE OverlapWords) + 1,
                Len(sub_chunks[k])) \o WithoutOverlaps(k + 1)

ReturnedCovering ==
    /\ chunk_pc = "returned"
    /\ SharesOverlap
    /\ WithoutOverlaps(1) = section

C20_ChunksWithinSize ==
    caller \in {"chunk_content", "chunk_content_enhanced"} =>
        \A k \in 1..Len(sub_chunks) :
            CountTokens(sub_chunks[k]) <= max_chunk_size

(***************************************************************************)
(* Properties of the provider manager.                                     *)
(***************************************************************************)
CalledProviders ==
    [i \in 1..Len(provider_calls) |-> provider_calls[i].provider]

\* the preferred provider when it is configured, then the configured ones
\* of OPENAI, ANTHROPIC, LOCAL_OLLAMA
ClaimedOrder ==
    LET first == IF preferred_provider # None
                    /\ preferred_provider.s \in providers
                 THEN <<preferred_provider.s>> ELSE <<>>
    IN  first \o SelectSeq(<<"openai", "anthropic", "local_ollama">>,
                           LAMBDA p : p \in providers /\ <<p>> # first)

\* C17: generate_with_fallback calls the configured providers one at a
\* time, the preferred one first when it is configured, then OPENAI,
\* ANTHROPIC, LOCAL_OLLAMA, each at most once; it returns the response of
\* the first that succeeds and calls none after it, and it raises only
\* when every configured provider has failed.
C17_FallbackOrder ==
    LET n == Len(provider_calls)
    IN  /\ n <= Len(ClaimedOrder)
        /\ CalledProviders = SubSeq(ClaimedOrder, 1, n)
        /\ \A i, j \in 1..n : i # j => CalledProviders[i] # CalledProviders[j]
        /\ \A i \in 1..(n - 1) : ~provider_calls[i].ok
        /\ (n > 0 /\ provider_calls[n].ok) =>
              fallback_response = AIResponse(provider_calls[n].provider)
        /\ fallback_response.py = "AIResponse" =>
              n > 0 /\ provider_calls[n].ok
        /\ IsRaise(fallback_response) =>
              /\ SeqToSet(CalledProviders) = providers
              /\ \A i \in 1..n : ~provider_calls[i].ok

\* the preferred provider and the next one failed, the last one answered
C17_Witness ==
    /\ preferred_provider = Str("anthropic")
    /\ CalledProviders = <<"anthropic", "openai", "local_ollama">>
    /\ fallback_response = AIResponse("local_ollama")

(***************************************************************************)
(* Properties of the enhanced synthesis.                                   *)
(***************************************************************************)
\* C18: for every parsed generation result, also one whose
\* build_instructions is missing, is no list or holds entries that are no
\* dictionaries, synthesize_architecture_enhanced records the validation
\* errors and warnings in validation_results and returns an
\* EnhancedBuildPlan carrying them, without raising.
C18_ValidationDoesNotBlock ==
    enhanced_plan # NoValue =>
        /\ ~IsRaise(validation_results)
        /\ enhanced_plan.py = "EnhancedBuildPlan"
        /\ enhanced_plan.validation_results = validation_results

(***************************************************************************)
(* Properties of the classification.                                       *)
(***************************************************************************)
RuleOrder ==
    <<"section_header", "code", "config", "command", "table", "list",
      "quote", "diagram">>

\* the content satisfies the predicate of the rule with this tag
Satisfies(lines, tag) ==
    CASE tag = "section_header" -> IsSectionHeader(lines)
      [] tag = "code" -> IsCode(lines)
      [] tag = "config" -> IsConfig(lines)
      [] tag = "command" -> IsCommand(lines)
      [] tag = "table" -> IsTable(lines)
      [] tag = "list" -> IsList(lines)
      [] tag = "quote" -> IsQuote(lines)
      [] tag = "diagram" -> IsDiagram(lines)

MatchingRules ==
    {i \in 1..Len(RuleOrder) : Satisfies(classified.lines, RuleOrder[i])}

\* C19: _classify_content_type_enhanced returns the tag of the first rule
\* in the order section header, code, config, command, table, list, quote,
\* diagram that the content satisfies, and text exactly when it satisfies
\* none.
C19_FirstMatchingRule ==
    content_type # "none" =>
        /\ content_type = "text" <=> MatchingRules = {}
        /\ MatchingRules # {} =>
              /\ content_type \in SeqToSet(RuleOrder)
              /\ \A i \in MatchingRules :
                    \E j \in 1..i : RuleOrder[j] = content_type
              /\ \E i \in MatchingRules : RuleOrder[i] = content_type

\* a content that satisfies the command, list and quote rules was tagged
C19_Witness ==
    /\ content_type = "command"
    /\ {4, 6, 7} \subseteq MatchingRules

(***************************************************************************)
(* Properties of the cache manager.                                        *)
(***************************************************************************)
InBody == {t \in DOMAIN thread_pc : thread_pc[t] = "locked"}

Waiting == {t \in DOMAIN thread_pc : thread_pc[t] = "acquire"}

\* C21: of the threads calling get, set, delete, clear, cleanup and
\* get_stats on one CacheManager at most one at a time is inside a method
\* body, where the index and the cache files are read and modified, and it
\* is the holder of the lock; the lock is never held by a thread that is
\* not inside a body, so a waiting thread is never blocked for good.
C21_OneThreadInBody ==
    /\ Cardinality(InBody) <= 1
    /\ \A t \in InBody : lock = t
    /\ lock # "free" => lock \in InBody

\* a thread is inside set while the other waits for the lock
C21_Witness ==
    /\ \E t \in InBody : thread_call[t].op = "set"
    /\ Waiting # {}

\* the step is a completed call of op by the only caller
Completed(op) ==
    /\ calls' = calls + 1
    /\ thread_result'["main"].op = op

C25_SizeWithinMax == TotalSize(cache_state.items) <= max_size_bytes

\* what a set that evicted did: the evicted keys were entries, none of the
\* entries left was accessed before an evicted one, the keys are listed by
\* access time, and when the value was stored the evicted entries free at
\* least its size while those before the last one do not
C25_EvictsOldestFirst ==
    LET done == thread_result'["main"]
        evicted == done.evicted
        before == cache_state.items
        n == Len(evicted)
    IN  Completed("set") /\ n > 0 =>
            /\ \A i \in 1..n : InCache(before, evicted[i])
            /\ \A i, j \in 1..n :
                  i < j => EntryOf(before, evicted[i]).accessed_at
                             <= EntryOf(before, evicted[j]).accessed_at
            /\ \A i \in 1..Len(before) :
                  before[i].key \notin SeqToSet(evicted) =>
                      before[i].val.accessed_at
                          >= EntryOf(before, evicted[n]).accessed_at
            /\ \A i \in 1..n :
                  evicted[i] # done.key =>
                      /\ ~InCache(cache_state'.items, evicted[i])
                      /\ evicted[i] \notin DOMAIN cache_state'.files
            /\ done.value = Bool(TRUE) =>
                  LET size_bytes ==
                          EntryOf(cache_state'.items, done.key).size_bytes
                  IN  /\ TotalSize(before) + size_bytes > max_size_bytes
                      /\ SizeOfKeys(before, evicted) >= size_bytes
                      /\ SizeOfKeys(before, SubSeq(evicted, 1, n - 1))
                            < size_bytes

\* C25: after any sequence of set, get, delete, clear and cleanup on a
\* CacheManager that starts empty the sizes of the entries sum to at most
\* max_size_bytes, and a set whose value does not fit evicts entries in
\* ascending order of last access time until enough bytes are freed.
C25_BoundedLruEviction ==
    []C25_SizeWithinMax /\ [][C25_EvictsOldestFirst]_vars

\* a set stored its value after evicting two entries
C25_Witness ==
    /\ thread_result["main"].op = "set"
    /\ thread_result["main"].value = Bool(TRUE)
    /\ Len(thread_result["main"].evicted) = 2
    /\ TotalSize(cache_state.items) = max_size_bytes

\* what the claim asks of a completed get
C26_GetStep ==
    LET done == thread_result'["main"]
        before == cache_state.items
    IN  Completed("get") /\ InCache(before, done.key) =>
            IF IsExpired(EntryOf(before, done.key), now)
            THEN /\ done.value = None
                 /\ ~InCache(cache_state'.items, done.key)
                 /\ done.key \notin DOMAIN cache_state'.files
            ELSE done.value = set_values[done.key]

\* C26: get on an entry whose age exceeds its TTL returns None and removes
\* the entry and its file; get on an entry that was set and is neither
\* expired nor evicted, deleted or cleared returns the value that was set.
C26_GetReturnsWhatWasSet == [][C26_GetStep]_vars

\* C28: a call of set that returns False leaves the cache as it was: the
\* keys, the entries and the value files are those from before the call.
C28_FailedSetChangesNothing ==
    [][Completed("set") /\ thread_result'["main"].value = Bool(FALSE)
          => cache_state' = cache_state]_vars

\* _load_cache_index: self.cache as read from cache_index.json
LoadCacheIndex(st) == CacheState(st.index, st.files, st.index)

\* CacheManager.__init__ on the directory of st
Recreated(st, clock) == CleanupExpired(LoadCacheIndex(st), clock)

CachedKeys(items) == SeqToSet(KeySeq(items))

Unexpired(items, clock) ==
    SelectSeq(items, LAMBDA it : ~IsExpired(it.val, clock))

\* C29: after every completed public operation cache_index.json lists
\* exactly the keys of the in-memory index, every listed key has its value
\* file, and a CacheManager created anew on the directory holds the same
\* unexpired entries.
C29_IndexMatchesMemory ==
    /\ CachedKeys(cache_state.index) = CachedKeys(cache_state.items)
    /\ CachedKeys(cache_state.index) \subseteq DOMAIN cache_state.files
    /\ CachedKeys(Recreated(cache_state, now).items)
          = CachedKeys(Unexpired(cache_state.items, now))

(***************************************************************************)
(* Termination of _split_with_overlap.                                     *)
(***************************************************************************)
\* the call the claim is about: a content with words, a positive
\* max_chunk_size
SplitOfContent ==
    /\ caller = "split_with_overlap"
    /\ section # <<>>
    /\ max_chunk_size > 0

ReturnedNonEmpty ==
    /\ chunk_pc = "returned"
    /\ \A k \in 1..Len(sub_chunks) : sub_chunks[k] # <<>>

\* an iteration that is followed by another one moves start forward
StartAdvances ==
    SplitOfContent /\ chunk_pc = "loop" /\ chunk_pc' = "loop"
        => start' > start

\* C27: for every non-empty content, positive max_chunk_size and
\* non-negative overlap_size _split_with_overlap terminates and returns
\* non-empty sub-chunks, start advancing strictly in every iteration of
\* its loop.
C27_SplitTerminates ==
    /\ <>(~SplitOfContent \/ ReturnedNonEmpty)
    /\ [][StartAdvances]_vars

(***************************************************************************)
(* Unsupported formats.                                                    *)
(***************************************************************************)
\* the keys of EnhancedDocumentProcessor.extractors
SupportedSuffixes ==
    {".pdf", ".docx", ".pptx", ".xlsx", ".html", ".htm", ".md", ".txt"}

\* C22: process_file_enhanced on an existing file whose extension is not
\* one of the supported formats raises ValueError instead of going on to
\* chunk extracted content.
C22_UnsupportedFormatRaises ==
    /\ processor = "enhanced"
    /\ file_suffix \notin SupportedSuffixes
    /\ content # NoValue
    => content = Raise("ValueError")

(***************************************************************************)
(* Properties of the file structure.                                       *)
(***************************************************************************)
RECURSIVE Present(_, _)
\* the path is in the structure, every proper prefix of it being a subtree
Present(current, parts) ==
    /\ current.py = "dict"
    /\ parts[1] \in KeysOf(current.items)
    /\ Len(parts) > 1 => Present(Get(current, parts[1], None), Tail(parts))

\* C23: whatever paths _add_to_structure is given and in whatever order, a
\* directory path and then a path beneath it or the reverse, every
\* insertion completes without raising, and afterwards every inserted path
\* is in the structure with each of its proper prefixes a subtree.
C23_InsertedPathsPresent ==
    /\ ~IsRaise(add_result)
    /\ \A i \in 1..Len(inserted) : Present(added_structure, inserted[i])

(***************************************************************************)
(* Properties of the format check.                                         *)
(***************************************************************************)
\* C24: for the prompt types ARCHITECTURE_ANALYSIS and
\* BUILD_PLAN_GENERATION validate_response_format returns False for every
\* response that is not JSON and True for every response that is.
C24_NonJsonRejected ==
    /\ format_valid # NoValue
    /\ prompt_type \in {"architecture_analysis", "build_plan_generation"}
    => format_valid = Bool(format_response # NonJsonText)

(***************************************************************************)
(* Properties of a compiled plan under execution.                          *)
(***************************************************************************)
RECURSIVE HasMarkerNode(_)
\* some node of the tree has the name of a marker file
HasMarkerNode(tree) ==
    \E i \in 1..Len(tree.items) :
        \/ tree.items[i].key \in MarkerNames
        \/ /\ tree.items[i].val.py = "dict"
           /\ HasMarkerNode(tree.items[i].val)

\* the execution the claim is about
MarkerFreeBuild ==
    /\ plan # NoValue
    /\ ~HasMarkerNode(Get(plan, "directory_structure", Dict(<<>>)))
    /\ \A q \in MarkerFiles : ~Exists(fs0, q)
    /\ ~dry_run

\* the log entries of the dependency instructions executed so far
DependencySteps ==
    {i \in 1..Len(log) :
        /\ log[i].kind = "instruction"
        /\ sorted_instructions[log[i].position].type = Str("dependency")}

\* C30: when a plan compiled by _create_build_instructions from a
\* directory tree without a node named package.json, requirements.txt or
\* pyproject.toml is executed, not as a dry run, in a working directory
\* that holds none of these files at the start, no dependency instruction
\* starts a package-manager subprocess.
C30_NoPackageManagerStarted ==
    MarkerFreeBuild => \A i \in DependencySteps : log[i].started = <<>>

\* such an execution created the directories a and a/b, went through two
\* dependency instructions and is finished
C30_Witness ==
    /\ MarkerFreeBuild
    /\ phase = "done" /\ result = "True"
    /\ Exists(fs, <<"a", "b">>)
    /\ Cardinality(DependencySteps) = 2

====
